---- MODULE Spec2Model ----
(***************************************************************************)
(* A model of the webagents.md SDK (package webagent): the manifest        *)
(* parser (parser.py), the serializer (serializer.py), the declaration     *)
(* generator (codegen.py) and the data model (types.py).                   *)
(*                                                                         *)
(* Text is modelled as TLA+ strings, character by character: a character   *)
(* is a string of length 1, SubSeq(s, i, j) is the Python slice            *)
(* s[i-1:j], and every regular expression of the source is an operator     *)
(* that scans the string the way the expression matches it.                *)
(***************************************************************************)
EXTENDS Integers, Sequences, FiniteSets, TLC

VARIABLES
    pc,        \* position of the caller: which call has returned last
    markdown,  \* the text handed to parse()
    dialect,   \* the branch parse() took: "blank", "compact" or "heading"
    result,    \* what parse(markdown) did: a Manifest returned or an exception
    manifest,  \* the Manifest handed to to_markdown / generate_typescript
    out,       \* the text returned by to_markdown(manifest)
    reparsed,  \* what parse(out) did
    ts,        \* the text returned by generate_typescript(manifest)
    call,      \* the call of site.py, discovery.py or client.py made last
    ret,       \* what that call did: a value returned or an exception
    requests,  \* the URLs that call has requested from the network, in order
    url,       \* the local url of discover(): None until the page is read
    closed,    \* the aclose() calls that call has made: the client closed and
               \* the number of requests made before it
    self_manifest  \* AgentClient._manifest: None or the Manifest loaded

\* The values of the calls of site.py, discovery.py and client.py.
callVars == <<call, ret, requests, url, closed, self_manifest>>

vars == <<pc, markdown, dialect, result, manifest, out, reparsed, ts, callVars>>

(***************************************************************************)
(* Characters and the str methods the source uses.                         *)
(***************************************************************************)

\* The i-th character of s (Python s[i-1]); "" outside the string.
Char(s, i) == IF i >= 1 /\ i <= Len(s) THEN SubSeq(s, i, i) ELSE ""

\* The grave accent (U+0060) of the param lines and of the code fences.  A
\* TLA+ string literal cannot hold it, so the model writes it as "~", a
\* character the source gives no meaning of its own.
Backtick == "~"

\* The fence of a code block: three grave accents.
Fence == Backtick \o Backtick \o Backtick

\* The ASCII characters str.strip() removes and the regex class \s matches
\* (the vertical tab and the separators U+001C to U+001F, which no TLA+
\* string literal holds, are left out).
IsSpace(c) == c \in {" ", "\t", "\n", "\r", "\f"}

\* The regex class \w, on ASCII text.
IsWord(c) ==
    c \in
    {"a", "b", "c", "d", "e", "f", "g", "h", "i", "j", "k", "l", "m",
     "n", "o", "p", "q", "r", "s", "t", "u", "v", "w", "x", "y", "z",
     "A", "B", "C", "D", "E", "F", "G", "H", "I", "J", "K", "L", "M",
     "N", "O", "P", "Q", "R", "S", "T", "U", "V", "W", "X", "Y", "Z",
     "0", "1", "2", "3", "4", "5", "6", "7", "8", "9", "_"}

\* The first index of lo..hi that is in the set S of places (hi + 1 if none,
\* lo if lo > hi), and the last one (lo - 1 if none): the scans of a string
\* are written with these two, so that no scan recurses once per character.
First(lo, hi, S) ==
    IF lo > hi THEN lo
    ELSE IF \E j \in lo..hi : j \in S
    THEN CHOOSE j \in lo..hi : j \in S /\ \A k \in lo..(j - 1) : k \notin S
    ELSE hi + 1

Last(lo, hi, S) ==
    IF lo > hi THEN hi
    ELSE IF \E j \in lo..hi : j \in S
    THEN CHOOSE j \in lo..hi : j \in S /\ \A k \in (j + 1)..hi : k \notin S
    ELSE lo - 1

\* First index >= i of s that holds no whitespace (Len(s) + 1 if none).
SkipSpace(s, i) == First(i, Len(s), {j \in i..Len(s) : ~IsSpace(SubSeq(s, j, j))})

\* Last index <= j of s that holds no whitespace (0 if none).
SkipSpaceBack(s, j) == Last(1, j, {k \in 1..j : ~IsSpace(SubSeq(s, k, k))})

\* First index >= i of s that holds no word character.
SkipWord(s, i) == First(i, Len(s), {j \in i..Len(s) : ~IsWord(SubSeq(s, j, j))})

\* First index >= i of s that holds the character c (Len(s) + 1 if none).
IndexOf(s, c, i) == First(i, Len(s), {j \in i..Len(s) : SubSeq(s, j, j) = c})

\* str.strip() and str.rstrip() without argument.
Strip(s) == SubSeq(s, SkipSpace(s, 1), SkipSpaceBack(s, Len(s)))

RStrip(s) == SubSeq(s, 1, SkipSpaceBack(s, Len(s)))

\* str.startswith(p) and the test  p in s  at a given place.
StartsWith(s, p) == Len(s) >= Len(p) /\ SubSeq(s, 1, Len(p)) = p

HasAt(s, p, i) == i + Len(p) - 1 <= Len(s) /\ SubSeq(s, i, i + Len(p) - 1) = p

\* str.removeprefix(p).
RemovePrefix(s, p) == IF StartsWith(s, p) THEN SubSeq(s, Len(p) + 1, Len(s)) ELSE s

\* First index >= i where p occurs in s, 0 if none (str.find, 1-based).
Find(s, p, i) ==
    LET hi == Len(s) - Len(p) + 1
        r == First(i, hi, {j \in i..hi : SubSeq(s, j, j + Len(p) - 1) = p})
    IN IF i > hi \/ r > hi THEN 0 ELSE r

Contains(s, p) == Find(s, p, 1) # 0

\* str.strip(chars): removes the characters of the set from both ends.
StripChars(s, cs) ==
    SubSeq(s,
           First(1, Len(s), {j \in 1..Len(s) : SubSeq(s, j, j) \notin cs}),
           Last(1, Len(s), {k \in 1..Len(s) : SubSeq(s, k, k) \notin cs}))

\* str.split(sep) for a one-character separator: always at least one piece.
RECURSIVE SplitFrom(_, _, _)
SplitFrom(s, sep, start) ==
    LET i == IndexOf(s, sep, start) IN
    IF i > Len(s) THEN <<SubSeq(s, start, Len(s))>>
    ELSE <<SubSeq(s, start, i - 1)>> \o SplitFrom(s, sep, i + 1)

Split(s, sep) == SplitFrom(s, sep, 1)

\* str.split(sep, 1): at most one split.
Split1(s, sep) ==
    LET i == IndexOf(s, sep, 1) IN
    IF i > Len(s) THEN <<s>>
    ELSE <<SubSeq(s, 1, i - 1), SubSeq(s, i + 1, Len(s))>>

\* str.splitlines(): lines end at "\n", "\f", "\r" or "\r\n"; no empty last
\* line.
RECURSIVE SplitLinesFrom(_, _)
SplitLinesFrom(s, start) ==
    LET i == First(start, Len(s),
                   {j \in start..Len(s) : SubSeq(s, j, j) \in {"\n", "\r", "\f"}})
        n == IF Char(s, i) = "\r" /\ Char(s, i + 1) = "\n" THEN i + 2 ELSE i + 1
    IN  IF start > Len(s) THEN <<>>
        ELSE IF i > Len(s) THEN <<SubSeq(s, start, Len(s))>>
        ELSE <<SubSeq(s, start, i - 1)>> \o SplitLinesFrom(s, n)

SplitLines(s) == SplitLinesFrom(s, 1)

\* sep.join(parts).
RECURSIVE Join(_, _)
Join(parts, sep) ==
    IF parts = <<>> THEN ""
    ELSE IF Len(parts) = 1 THEN parts[1]
    ELSE parts[1] \o sep \o Join(Tail(parts), sep)

\* str.lower() on ASCII letters.
LowerChar(c) ==
    LET k == Find("ABCDEFGHIJKLMNOPQRSTUVWXYZ", c, 1) IN
    IF c # "" /\ k # 0 THEN SubSeq("abcdefghijklmnopqrstuvwxyz", k, k) ELSE c

RECURSIVE Lower(_)
Lower(s) == IF s = "" THEN "" ELSE LowerChar(Head(s)) \o Lower(Tail(s))

\* The place i of s is where the multi-line anchor ^ matches.
AtLineStart(s, i) == i = 1 \/ Char(s, i - 1) = "\n"

(***************************************************************************)
(* The data model (types.py).  Param.default is None or a string: None is  *)
(* the empty tuple and the string v is <<v>>.                              *)
(***************************************************************************)

None == <<>>

Some(v) == <<v>>

\* Param(name, type, description, required, default).
Param(name, type, description, required, default) ==
    [name |-> name, type |-> type, description |-> description,
     required |-> required, default |-> default]

\* Tool(name, description, params, returns, sample_code).
Tool(name, description, params, returns, sample_code) ==
    [name |-> name, description |-> description, params |-> params,
     returns |-> returns, sample_code |-> sample_code]

\* Manifest(name, description, tools), version and content at their defaults.
Manifest(name, description, tools) ==
    [name |-> name, description |-> description, version |-> "0.1",
     tools |-> tools, content |-> ""]

\* What a call did: it returned a value, or it raised an exception.
Returned(v) == [raised |-> "", value |-> v]

Raised(e) == [raised |-> e]

\* No call made yet.
NoCall == [raised |-> "no call"]

(***************************************************************************)
(* The regular expressions of parser.py.  Each operator returns the        *)
(* groups of the match, or matched = FALSE.                                *)
(***************************************************************************)

NoMatch == [matched |-> FALSE]

\* _PARAM_RE.match(line):  ^-\s+`(\w+)`\s*\(([^)]+)\)\s*:\s*(.+)$
PARAM_RE(line) ==
    LET i2 == SkipSpace(line, 2)           \* the opening backtick
        i3 == SkipWord(line, i2 + 1)       \* the closing backtick
        i4 == SkipSpace(line, i3 + 1)      \* (
        i5 == IndexOf(line, ")", i4 + 1)   \* )
        i6 == SkipSpace(line, i5 + 1)      \* :
        i7 == SkipSpace(line, i6 + 1)      \* first character of the description
        \* \s* gives one character back when nothing is left for (.+)
        i8 == IF i7 <= Len(line) THEN i7
              ELSE IF i7 > i6 + 1 THEN Len(line) ELSE 0
    IN  IF /\ Char(line, 1) = "-"
           /\ i2 > 2
           /\ Char(line, i2) = Backtick
           /\ i3 > i2 + 1
           /\ Char(line, i3) = Backtick
           /\ Char(line, i4) = "("
           /\ i5 > i4 + 1
           /\ Char(line, i5) = ")"
           /\ Char(line, i6) = ":"
           /\ i8 # 0
           /\ ~Contains(SubSeq(line, i8, Len(line)), "\n")
        THEN [matched |-> TRUE,
              g1 |-> SubSeq(line, i2 + 1, i3 - 1),
              g2 |-> SubSeq(line, i4 + 1, i5 - 1),
              g3 |-> SubSeq(line, i8, Len(line))]
        ELSE NoMatch

\* _CODE_BLOCK_RE.search(text) from place i on:  ```\w*\n(.*?)```  (DOTALL)
RECURSIVE CODE_BLOCK_RE_from(_, _)
CODE_BLOCK_RE_from(text, i) ==
    LET p == Find(text, Fence, i)
        w == SkipWord(text, p + 3)
        q == Find(text, Fence, w + 1)
    IN  IF p = 0 THEN NoMatch
        ELSE IF Char(text, w) = "\n" /\ q # 0
        THEN [matched |-> TRUE, g1 |-> SubSeq(text, w + 1, q - 1)]
        ELSE CODE_BLOCK_RE_from(text, p + 1)

CODE_BLOCK_RE(text) == CODE_BLOCK_RE_from(text, 1)

\* _TOOL_HEADER_RE.match(line):  ^tool:\s+(\w+)\(([^)]*)\)\s*$
TOOL_HEADER_RE(line) ==
    LET i1 == SkipSpace(line, 6)           \* first character of the name
        i2 == SkipWord(line, i1)           \* (
        i3 == IndexOf(line, ")", i2 + 1)   \* )
    IN  IF /\ StartsWith(line, "tool:")
           /\ i1 > 6
           /\ i2 > i1
           /\ Char(line, i2) = "("
           /\ Char(line, i3) = ")"
           /\ SkipSpace(line, i3 + 1) > Len(line)
        THEN [matched |-> TRUE,
              g1 |-> SubSeq(line, i1, i2 - 1),
              g2 |-> SubSeq(line, i2 + 1, i3 - 1)]
        ELSE NoMatch

\* re.split(r"(?m)^<prefix>", s) for a literal prefix ("## ", "### "): the
\* pieces of s from start on, the search for the next match going on at i.
RECURSIVE SplitAtLinePrefix(_, _, _, _)
SplitAtLinePrefix(s, prefix, start, i) ==
    LET m == First(i, Len(s),
                   {j \in i..Len(s) : AtLineStart(s, j) /\ HasAt(s, prefix, j)})
    IN  IF m > Len(s) THEN <<SubSeq(s, start, Len(s))>>
        ELSE <<SubSeq(s, start, m - 1)>>
             \o SplitAtLinePrefix(s, prefix, m + Len(prefix), m + Len(prefix))

\* re.split(r"(?m)^tool:\s+", s): \s+ is greedy and runs over line ends.
RECURSIVE SplitAtToolMarker(_, _, _)
SplitAtToolMarker(s, start, i) ==
    LET m == First(i, Len(s),
                   {j \in i..Len(s) : /\ AtLineStart(s, j)
                                       /\ HasAt(s, "tool:", j)
                                       /\ IsSpace(Char(s, j + 5))})
        e == SkipSpace(s, m + 5)     \* the end of the match
    IN  IF m > Len(s) THEN <<SubSeq(s, start, Len(s))>>
        ELSE <<SubSeq(s, start, m - 1)>> \o SplitAtToolMarker(s, e, e)

(***************************************************************************)
(* parser.py: shared helpers.                                              *)
(***************************************************************************)

\* _extract_code_block(text): the first fenced block, else the whole text.
ExtractedCode(m, text) == IF m.matched THEN Strip(m.g1) ELSE Strip(text)

extract_code_block(text) == ExtractedCode(CODE_BLOCK_RE(text), text)

\* ApplyModifier with only the five known type names taken as a type.
ApplyModifier_known_types(st, mod) ==
    IF mod = "optional" THEN [st EXCEPT !.required = FALSE]
    ELSE IF mod = "required" THEN [st EXCEPT !.required = TRUE]
    ELSE IF StartsWith(mod, "default=")
    THEN [st EXCEPT !.default = Some(Strip(RemovePrefix(mod, "default="))),
                    !.required = FALSE]
    ELSE IF mod \in {"string", "number", "boolean", "object", "array"}
    THEN [st EXCEPT !.ptype = mod]
    ELSE st

\* One round of the loop over the modifiers of a param line
\* (_parse_params_block, lines 303-315); st holds ptype, required, default.
ApplyModifier(st, mod) ==
    IF mod = "optional" THEN [st EXCEPT !.required = FALSE]
    ELSE IF mod = "required" THEN [st EXCEPT !.required = TRUE]
    ELSE IF StartsWith(mod, "default=")
    THEN [st EXCEPT !.default = Some(Strip(RemovePrefix(mod, "default="))),
                    !.required = FALSE]
    ELSE [st EXCEPT !.ptype = mod]

RECURSIVE ApplyModifiers(_, _, _)
ApplyModifiers(st, mods, k) ==
    IF k > Len(mods) THEN st
    ELSE ApplyModifiers(ApplyModifier(st, Strip(mods[k])), mods, k + 1)

\* The Param of one line of a heading params section, <<>> if the line does
\* not match _PARAM_RE (the body of the loop of _parse_params_block).
ParamOfMatch(m) ==
    IF ~m.matched THEN <<>>
    ELSE LET st == ApplyModifiers(
                     [ptype |-> "string", required |-> TRUE, default |-> None],
                     Split(m.g2, ","), 1)
         IN <<Param(m.g1, st.ptype, Strip(m.g3), st.required, st.default)>>

ParamOfLine(raw_line) == ParamOfMatch(PARAM_RE(Strip(raw_line)))

RECURSIVE ParamsOfLines(_, _)
ParamsOfLines(lines, k) ==
    IF k > Len(lines) THEN <<>>
    ELSE ParamOfLine(lines[k]) \o ParamsOfLines(lines, k + 1)

\* _parse_params_block(text).
parse_params_block(text) == ParamsOfLines(SplitLines(Strip(text)), 1)

(***************************************************************************)
(* parser.py: the heading dialect.                                         *)
(***************************************************************************)

\* The loop of _parse_manifest_header over the lines from k on.
RECURSIVE HeaderLoop(_, _, _, _)
HeaderLoop(lines, k, name, desc_lines) ==
    IF k > Len(lines) THEN [name |-> name, desc_lines |-> desc_lines]
    ELSE IF StartsWith(lines[k], "# ")
    THEN HeaderLoop(lines, k + 1, Strip(RemovePrefix(lines[k], "# ")), desc_lines)
    ELSE IF name # ""
    THEN HeaderLoop(lines, k + 1, name, Append(desc_lines, lines[k]))
    ELSE HeaderLoop(lines, k + 1, name, desc_lines)

\* _parse_manifest_header(header) -> (name, description).
parse_manifest_header(header) ==
    LET r == HeaderLoop(SplitLines(Strip(header)), 1, "", <<>>)
    IN [name |-> r.name, description |-> Strip(Join(r.desc_lines, "\n"))]

\* The dict sub_sections built from sub_parts[1:], as the sequence of its
\* assignments  sub_sections[key] = body,  from part k on; key and body are
\* the two pieces of part.split("\n", 1).
RECURSIVE SubSections(_, _)
SubSections(sub_parts, k) ==
    IF k > Len(sub_parts) THEN <<>>
    ELSE <<[key |-> Lower(Strip(Split1(sub_parts[k], "\n")[1])),
            body |-> IF Contains(sub_parts[k], "\n")
                     THEN Split1(sub_parts[k], "\n")[2] ELSE ""]>>
         \o SubSections(sub_parts, k + 1)

\* sub_sections[key]: the last assignment to the key wins.  <<>> if the key
\* is absent.
SubSection(sub_sections, key) ==
    LET j == Last(1, Len(sub_sections),
                  {k \in 1..Len(sub_sections) : sub_sections[k].key = key})
    IN IF j = 0 THEN <<>> ELSE <<sub_sections[j].body>>

\* The Tool built from the lines above the first "### " and from the dict
\* (_parse_heading_tool, lines 111-132).
HeadingToolOf(lines, sub_sections) ==
    LET sec(key) == SubSection(sub_sections, key)
        tool_name == IF lines # <<>> THEN Strip(lines[1]) ELSE ""
        tool_desc == IF lines # <<>> THEN Strip(Join(Tail(lines), "\n")) ELSE ""
        params == IF sec("params") # <<>>
                  THEN parse_params_block(sec("params")[1]) ELSE <<>>
        sample_code == IF sec("sample code") # <<>>
                       THEN extract_code_block(sec("sample code")[1]) ELSE ""
        returns == IF sec("output") # <<>> THEN extract_code_block(sec("output")[1])
                   ELSE IF sec("returns") # <<>>
                   THEN extract_code_block(sec("returns")[1]) ELSE ""
    IN Tool(tool_name, tool_desc, params, returns, sample_code)

HeadingToolOfParts(sub_parts) ==
    HeadingToolOf(SplitLines(Strip(sub_parts[1])), SubSections(sub_parts, 2))

\* _parse_heading_tool(section).
parse_heading_tool(section) ==
    HeadingToolOfParts(SplitAtLinePrefix(section, "### ", 1, 1))

RECURSIVE HeadingTools(_, _)
HeadingTools(parts, k) ==
    IF k > Len(parts) THEN <<>>
    ELSE <<parse_heading_tool(parts[k])>> \o HeadingTools(parts, k + 1)

\* _parse_heading(markdown).
parse_heading(markdown_) ==
    LET parts == SplitAtLinePrefix(markdown_, "## ", 1, 1)
        h == parse_manifest_header(parts[1])
    IN Manifest(h.name, h.description, HeadingTools(parts, 2))

(***************************************************************************)
(* parser.py: the compact dialect.                                         *)
(***************************************************************************)

\* The loop of _parse_compact_params over the parts of the header signature:
\* the last part  name = literal  naming pname gives the default.
RECURSIVE DefaultInSignature(_, _, _, _)
DefaultInSignature(parts, k, pname, found) ==
    IF k > Len(parts) THEN found
    ELSE LET part == Strip(parts[k]) IN
         IF Contains(part, "=") /\ Strip(Split(part, "=")[1]) = pname
         THEN DefaultInSignature(parts, k + 1, pname,
                  Some(StripChars(Strip(Split1(part, "=")[2]), {"'", "\""})))
         ELSE DefaultInSignature(parts, k + 1, pname, found)

\* The Param of one body line of a compact params section, <<>> if none.
CompactParamOfLine(line, raw_params_str) ==
    LET stripped == Strip(line) IN
    IF stripped = "" \/ ~Contains(stripped, ":") THEN <<>>
    ELSE LET pname == Strip(Split1(stripped, ":")[1])
             ptype == Strip(Split1(stripped, ":")[2])
             default == DefaultInSignature(Split(raw_params_str, ","), 1, pname, None)
         IN <<Param(pname, ptype, "", default = None, default)>>

\* _parse_compact_params(lines, raw_params_str), from line k on.
RECURSIVE parse_compact_params(_, _, _)
parse_compact_params(lines, raw_params_str, k) ==
    IF k > Len(lines) THEN <<>>
    ELSE CompactParamOfLine(lines[k], raw_params_str)
         \o parse_compact_params(lines, raw_params_str, k + 1)

\* The Param of one part of a signature (_params_from_signature), <<>> if
\* the part is blank.
ParamOfSignaturePart(raw_part) ==
    LET part == Strip(raw_part) IN
    IF part = "" THEN <<>>
    ELSE IF Contains(part, "=")
    THEN <<Param(Strip(Split1(part, "=")[1]), "string", "", FALSE,
                 Some(StripChars(Strip(Split1(part, "=")[2]), {"'", "\""})))>>
    ELSE <<Param(Strip(part), "string", "", TRUE, None)>>

RECURSIVE ParamsOfSignatureParts(_, _)
ParamsOfSignatureParts(parts, k) ==
    IF k > Len(parts) THEN <<>>
    ELSE ParamOfSignaturePart(parts[k]) \o ParamsOfSignatureParts(parts, k + 1)

\* _params_from_signature(sig).
params_from_signature(sig) == ParamsOfSignatureParts(Split(sig, ","), 1)

RECURSIVE StripEach(_)
StripEach(lines) ==
    IF lines = <<>> THEN <<>> ELSE <<Strip(Head(lines))>> \o StripEach(Tail(lines))

\* The text of an output, returns or sample_code section.
CodeOrTextOf(code_text) ==
    IF Contains(code_text, Fence) THEN extract_code_block(code_text)
    ELSE Strip(code_text)

CodeOrText(lines) == CodeOrTextOf(Join(lines, "\n"))

\* _apply_section(key, lines, raw_params_str, ...): st holds the running
\* description, params, returns and sample_code of the tool.
apply_section(key, lines, raw_params_str, st) ==
    IF key = "description"
    THEN [st EXCEPT !.description = Strip(Join(StripEach(lines), "\n"))]
    ELSE IF key = "params"
    THEN [st EXCEPT !.params = parse_compact_params(lines, raw_params_str, 1)]
    ELSE IF key \in {"output", "returns"}
    THEN [st EXCEPT !.returns = CodeOrText(lines)]
    ELSE IF key = "sample_code"
    THEN [st EXCEPT !.sample_code = CodeOrText(lines)]
    ELSE st

\* re.match(r"^\s{2}\w+:", line) and not line.startswith("    ").
IsSectionKeyLine(line) ==
    /\ IsSpace(Char(line, 1))
    /\ IsSpace(Char(line, 2))
    /\ SkipWord(line, 3) > 3
    /\ Char(line, SkipWord(line, 3)) = ":"
    /\ ~StartsWith(line, "    ")

\* The loop of _parse_compact_tool over lines[1:], from line k on, and the
\* flush of the last section after it.
RECURSIVE SectionLoop(_, _, _, _, _, _)
SectionLoop(lines, k, raw_params_str, current_key, current_lines, st) ==
    IF k > Len(lines)
    THEN IF current_key # ""
         THEN apply_section(current_key, current_lines, raw_params_str, st)
         ELSE st
    ELSE IF IsSectionKeyLine(lines[k])
    THEN LET stripped == Strip(lines[k])
             key == Strip(Split(stripped, ":")[1])
             rest == Strip(SubSeq(stripped, Len(key) + 2, Len(stripped)))
             st1 == IF current_key # ""
                    THEN apply_section(current_key, current_lines, raw_params_str, st)
                    ELSE st
         IN SectionLoop(lines, k + 1, raw_params_str, key,
                        IF rest # "" /\ rest # "|" THEN <<rest>> ELSE <<>>, st1)
    ELSE SectionLoop(lines, k + 1, raw_params_str, current_key,
                     Append(current_lines, lines[k]), st)

\* _parse_compact_tool(block): the Tool returned, or the ValueError raised.
\* The end of _parse_compact_tool (lines 232-235): the params of the
\* signature when the sections gave none, and the Tool.
CompactToolOfSections(tool_name, raw_params_str, st) ==
    Tool(tool_name, st.description,
         IF st.params = <<>> /\ raw_params_str # ""
         THEN params_from_signature(raw_params_str) ELSE st.params,
         st.returns, st.sample_code)

\* _parse_compact_tool from the match of the header line on (lines 194-235).
CompactToolOfHeader(lines, header_match, raw_params_str) ==
    CompactToolOfSections(
        IF header_match.matched THEN header_match.g1
        ELSE Strip(Split(lines[1], "(")[1]),
        raw_params_str,
        SectionLoop(lines, 2, raw_params_str, "", <<>>,
                    [description |-> "", params |-> <<>>, returns |-> "",
                     sample_code |-> ""]))

\* raw_params_str of a header match (lines 194-199).
RawParamsStr(header_match) == IF header_match.matched THEN header_match.g2 ELSE ""

CompactToolOfMatch(lines, header_match) ==
    CompactToolOfHeader(lines, header_match, RawParamsStr(header_match))

CompactToolOfLines(lines) ==
    IF lines = <<>> THEN Raised("ValueError: Empty tool block")
    ELSE Returned(CompactToolOfMatch(lines, TOOL_HEADER_RE("tool: " \o lines[1])))

parse_compact_tool(block) == CompactToolOfLines(SplitLines(Strip(block)))

\* The loop of _parse_compact over the lines of the document, from line k on,
\* up to the break at the first line matching _TOOL_HEADER_RE.
RECURSIVE PreambleLoop(_, _, _, _)
PreambleLoop(lines, k, name, preamble_lines) ==
    IF k > Len(lines) THEN [name |-> name, preamble_lines |-> preamble_lines]
    ELSE IF StartsWith(lines[k], "# ")
    THEN PreambleLoop(lines, k + 1, Strip(RemovePrefix(lines[k], "# ")), preamble_lines)
    ELSE IF TOOL_HEADER_RE(lines[k]).matched
    THEN [name |-> name, preamble_lines |-> preamble_lines]
    ELSE PreambleLoop(lines, k + 1, name, Append(preamble_lines, lines[k]))

\* The loop of _parse_compact over tool_blocks[1:]: the tools parsed so far,
\* or the first exception raised.
RECURSIVE CompactTools(_, _, _)
RECURSIVE CompactToolsAfter(_, _, _, _)
CompactToolsAfter(tool_blocks, k, tools, t) ==
    IF t.raised # "" THEN t
    ELSE CompactTools(tool_blocks, k + 1, Append(tools, t.value))

CompactTools(tool_blocks, k, tools) ==
    IF k > Len(tool_blocks) THEN Returned(tools)
    ELSE CompactToolsAfter(tool_blocks, k, tools, parse_compact_tool(tool_blocks[k]))

\* _parse_compact(markdown): the Manifest returned, or the exception raised.
CompactManifest(pre, tools) ==
    IF tools.raised # "" THEN tools
    ELSE Returned(Manifest(pre.name, Strip(Join(pre.preamble_lines, "\n")),
                           tools.value))

parse_compact(markdown_) ==
    CompactManifest(PreambleLoop(SplitLines(markdown_), 1, "", <<>>),
                    CompactTools(SplitAtToolMarker(markdown_, 1, 1), 2, <<>>))

(***************************************************************************)
(* parser.py: parse.                                                       *)
(***************************************************************************)

\* re.search(r"^tool:\s+", markdown, re.MULTILINE) finds a match.
HasToolMarker(s) == Len(SplitAtToolMarker(s, 1, 1)) > 1

\* DialectOf with the two tests in the other order: a document holding a
\* "## " line is read as the heading dialect even if it holds tool: lines.
DialectOfHeadingFirst(text) ==
    IF Strip(text) = "" THEN "blank"
    ELSE IF Len(SplitAtLinePrefix(Strip(text), "## ", 1, 1)) > 1 THEN "heading"
    ELSE IF HasToolMarker(Strip(text)) THEN "compact"
    ELSE "heading"

\* The branch parse(markdown) takes (lines 55-63).
DialectOf(text) ==
    IF Strip(text) = "" THEN "blank"
    ELSE IF HasToolMarker(Strip(text)) THEN "compact"
    ELSE "heading"

\* WithContent without the assignment of line 66: content keeps its default.
WithoutContent(m, stripped) == m

\* manifest.content = markdown (line 66), unless the parser raised.
WithContent(m, stripped) ==
    IF m.raised # "" THEN m ELSE Returned([m.value EXCEPT !.content = stripped])

\* parse from line 56 on: markdown is stripped already.
ParseStripped(stripped, branch) ==
    IF branch = "blank" THEN Returned(Manifest("", "", <<>>))
    ELSE WithContent(IF branch = "compact" THEN parse_compact(stripped)
                     ELSE Returned(parse_heading(stripped)),
                     stripped)

\* parse without the strip of line 55: the text is tested and parsed as given.
parse_unstripped(text) ==
    ParseStripped(text, IF text = "" THEN "blank"
                        ELSE IF HasToolMarker(text) THEN "compact"
                        ELSE "heading")

\* parse(markdown): the Manifest returned, or the exception raised.
parse(text) == ParseStripped(Strip(text), DialectOf(text))

(***************************************************************************)
(* serializer.py.                                                          *)
(***************************************************************************)

\* _serialize_param(param).
serialize_param(param) ==
    LET modifiers == <<param.type>>
                     \o <<IF param.required THEN "required" ELSE "optional">>
                     \o (IF param.default # None
                         THEN <<"default=" \o param.default[1]>> ELSE <<>>)
        desc == IF param.description # "" THEN ": " \o param.description ELSE ""
    IN "- " \o Backtick \o param.name \o Backtick \o " ("
       \o Join(modifiers, ", ") \o ")" \o desc

RECURSIVE SerializeParams(_, _)
SerializeParams(params, k) ==
    IF k > Len(params) THEN <<>>
    ELSE <<serialize_param(params[k])>> \o SerializeParams(params, k + 1)

\* _serialize_tool(tool): the lines of one tool block.
serialize_tool(tool) ==
    <<"## " \o tool.name>>
    \o (IF tool.description # "" THEN <<tool.description>> ELSE <<>>)
    \o <<"">>
    \o (IF tool.params # <<>>
        THEN <<"### Params">> \o SerializeParams(tool.params, 1) \o <<"">>
        ELSE <<>>)
    \o (IF tool.returns # ""
        THEN <<"### Output", Fence \o "typescript", tool.returns, Fence, "">>
        ELSE <<>>)
    \o (IF tool.sample_code # ""
        THEN <<"### Sample Code", Fence \o "javascript", tool.sample_code, Fence>>
        ELSE <<>>)

RECURSIVE SerializeTools(_, _)
SerializeTools(tools, k) ==
    IF k > Len(tools) THEN <<>>
    ELSE serialize_tool(tools[k]) \o <<"">> \o SerializeTools(tools, k + 1)

\* to_markdown without the rstrip of line 32.
to_markdown_untrimmed(m) ==
    LET head == (IF m.name # "" THEN <<"# " \o m.name>> ELSE <<>>)
                \o (IF m.description # "" THEN <<m.description>> ELSE <<>>)
        lines == head \o (IF head # <<>> THEN <<"">> ELSE <<>>)
                 \o SerializeTools(m.tools, 1)
    IN Join(lines, "\n") \o "\n"

\* to_markdown(manifest).
to_markdown(m) ==
    LET head == (IF m.name # "" THEN <<"# " \o m.name>> ELSE <<>>)
                \o (IF m.description # "" THEN <<m.description>> ELSE <<>>)
        lines == head \o (IF head # <<>> THEN <<"">> ELSE <<>>)
                 \o SerializeTools(m.tools, 1)
    IN RStrip(Join(lines, "\n")) \o "\n"

(***************************************************************************)
(* codegen.py.                                                             *)
(***************************************************************************)

\* _TS_TYPE_MAP without its entries: every type string is left as it is.
TS_TYPE_MAP_empty(type) == type

\* _TS_TYPE_MAP.get(type, type).
TS_TYPE_MAP(type) ==
    CASE type = "string" -> "string"
      [] type = "number" -> "number"
      [] type = "boolean" -> "boolean"
      [] type = "object" -> "Record<string, unknown>"
      [] type = "array" -> "unknown[]"
      [] OTHER -> type

\* _param_to_ts(param).
param_to_ts(param) ==
    param.name \o (IF ~param.required THEN "?" ELSE "") \o ": "
    \o TS_TYPE_MAP(param.type)

RECURSIVE ParamsToTs(_, _)
ParamsToTs(params, k) ==
    IF k > Len(params) THEN <<>>
    ELSE <<param_to_ts(params[k])>> \o ParamsToTs(params, k + 1)

\* The member signature line of a tool (_tool_declaration, lines 63-65).
Signature(tool) ==
    "  " \o tool.name \o "(" \o Join(ParamsToTs(tool.params, 1), ", ")
    \o "): Promise<" \o (IF tool.returns # "" THEN tool.returns ELSE "any") \o ">;"

\* The @param lines of the JSDoc block (_tool_declaration, lines 56-59).
RECURSIVE JsDocParams(_, _)
JsDocParams(params, k) ==
    IF k > Len(params) THEN <<>>
    ELSE LET p == params[k]
             desc == IF p.description # "" THEN " " \o p.description ELSE ""
             default == IF p.default # None /\ p.default # Some("")
                        THEN " (default: " \o p.default[1] \o ")" ELSE ""
         IN <<"   * @param " \o p.name \o " -" \o desc \o default>>
            \o JsDocParams(params, k + 1)

RECURSIVE Prefixed(_, _)
Prefixed(prefix, lines) ==
    IF lines = <<>> THEN <<>>
    ELSE <<prefix \o Head(lines)>> \o Prefixed(prefix, Tail(lines))

\* _tool_declaration(tool).
tool_declaration(tool) ==
    Join(<<"  /**">>
         \o (IF tool.description # ""
             THEN Prefixed("   * ", SplitLines(tool.description)) ELSE <<>>)
         \o (IF tool.params # <<>>
             THEN (IF tool.description # "" THEN <<"   *">> ELSE <<>>)
                  \o JsDocParams(tool.params, 1)
             ELSE <<>>)
         \o <<"   */", Signature(tool)>>, "\n")

RECURSIVE ToolDeclarations(_, _)
ToolDeclarations(tools, k) ==
    IF k > Len(tools) THEN <<>>
    ELSE <<tool_declaration(tools[k])>> \o ToolDeclarations(tools, k + 1)

\* generate_typescript(manifest).
generate_typescript(m) ==
    IF m.tools = <<>> THEN "declare const global: {};\n"
    ELSE "declare const global: {\n"
         \o Join(ToolDeclarations(m.tools, 1), "\n\n") \o "\n};\n"

(***************************************************************************)
(* The inputs.  A document is up to MaxChunks chunks of text, one after    *)
(* the other; the chunks are pieces of webagents.md files in both          *)
(* dialects, well-formed and malformed.                                    *)
(***************************************************************************)

MaxChunks == 2

Chunks == {
    "  \n",
    "# Store\nDesc.\n\n",
    "# Shop\nMore.\n",
    "## find\nFinds.\n\n### Params\n- ~q~ (string, required): Q.\n"
        \o "- ~n~ (number, optional, default=5): N.\n\n### Output\n~~~typescript\n"
        \o "{ ok: boolean }\n~~~\n\n### Sample Code\n~~~js\nrun();\n~~~\n",
    "## get\n### Params\n- ~n~ (number, default=5, required): N.\n- note\n"
        \o "- ~m~ (string, Mode, optional): M.\n",
    "## Important\n- Rate limit: 10/min.\n",
    "tool: find(q, n=5)\n  description: |\n    Finds.\n  params:\n    q: string\n"
        \o "    n: number\n  returns: R\n  sample_code:\n    ~~~js\n    run();\n    ~~~\n",
    "tool: get(id, n='5')\n",
    "tool: \n",
    "tool: search\n",
    "tool: list(a)\n  params:\n  description: Lists.\n"
}

\* The concatenations of up to n chunks.
RECURSIVE DocumentsOf(_)
DocumentsOf(n) ==
    IF n = 0 THEN {""}
    ELSE LET shorter == DocumentsOf(n - 1)
         IN shorter \cup {d \o c : d \in shorter, c \in Chunks}

(***************************************************************************)
(* The Manifests a caller builds with the constructors of types.py, as      *)
(* test_serializer_roundtrip does: up to MaxTools tools out of ToolChoices. *)
(***************************************************************************)

MaxTools == 2

ToolChoices == {
    Tool("find", "Finds.",
         <<Param("q", "string", "Q.", TRUE, None),
           Param("n", "number", "N.", FALSE, Some("5"))>>,
         "{ ok: boolean }", "run();"),
    Tool("get", "", <<Param("k", "number", "K.", TRUE, Some("1"))>>, "", ""),
    Tool("list", "Lists.", <<Param("e", "string", "", TRUE, None)>>, "", ""),
    Tool("ping", "", <<>>, "", ""),
    Tool("show", "Shows.",
         <<Param("o", "boolean", "O.", FALSE, None),
           Param("a", "array", "A.", TRUE, None)>>,
         "R", ""),
    Tool("send", "Sends.\nTwice.",
         <<Param("b", "object", "B.", TRUE, None),
           Param("m", "Mode", "M.", FALSE, None)>>,
         "", "go();")
}

\* The sequences of up to n elements of S.
SeqsUpTo(S, n) == UNION {[1..k -> S] : k \in 0..n}

BuiltManifests ==
    {Manifest(name, description, tools) :
        name \in {"", "Store"}, description \in {"", "Desc."},
        tools \in SeqsUpTo(ToolChoices, MaxTools)}

(***************************************************************************)
(* The caller.  Under Spec it parses a document, serializes the Manifest,   *)
(* parses the text again, and generates the declarations; under SpecBuilt   *)
(* it starts from a Manifest it built itself.                               *)
(***************************************************************************)

\* No call of site.py, discovery.py or client.py has been made.
NoCallMade ==
    /\ call = [op |-> "none"]
    /\ ret = NoCall
    /\ requests = <<>>
    /\ url = None
    /\ closed = <<>>
    /\ self_manifest = None

Init ==
    /\ pc = "start"
    /\ markdown \in DocumentsOf(MaxChunks)
    /\ dialect = "none"
    /\ result = NoCall
    /\ manifest = Manifest("", "", <<>>)
    /\ out = ""
    /\ reparsed = NoCall
    /\ ts = ""
    /\ NoCallMade

\* manifest = Manifest(name=..., description=..., tools=[...])
InitBuilt ==
    /\ pc = "built"
    /\ markdown = ""
    /\ dialect = "none"
    /\ result = NoCall
    /\ manifest \in BuiltManifests
    /\ out = ""
    /\ reparsed = NoCall
    /\ ts = ""
    /\ NoCallMade

\* m = parse(markdown)
Parse ==
    /\ pc = "start"
    /\ result' = parse(markdown)
    /\ dialect' = DialectOf(markdown)
    /\ manifest' = IF result'.raised = "" THEN result'.value ELSE manifest
    /\ pc' = IF result'.raised = "" THEN "parsed" ELSE "raised"
    /\ UNCHANGED <<markdown, out, reparsed, ts>>
    /\ UNCHANGED callVars

\* text = to_markdown(m)
Serialize ==
    /\ pc \in {"parsed", "built"}
    /\ out' = to_markdown(manifest)
    /\ pc' = "serialized"
    /\ UNCHANGED <<markdown, dialect, result, manifest, reparsed, ts>>
    /\ UNCHANGED callVars

\* parse(text)
Reparse ==
    /\ pc = "serialized"
    /\ reparsed' = parse(out)
    /\ pc' = "reparsed"
    /\ UNCHANGED <<markdown, dialect, result, manifest, out, ts>>
    /\ UNCHANGED callVars

\* ts = generate_typescript(m)
Generate ==
    /\ pc \in {"parsed", "built"}
    /\ ts' = generate_typescript(manifest)
    /\ pc' = "generated"
    /\ UNCHANGED <<markdown, dialect, result, manifest, out, reparsed>>
    /\ UNCHANGED callVars

Next == Parse \/ Serialize \/ Reparse \/ Generate

Spec == Init /\ [][Next]_vars

NextBuilt == Serialize \/ Reparse \/ Generate

SpecBuilt == InitBuilt /\ [][NextBuilt]_vars

(***************************************************************************)
(* site.py: validate(manifest) checks a Manifest for common issues and      *)
(* returns the list of warnings.                                            *)
(***************************************************************************)

\* The loop without the seen_names.add of line 63: no name is ever seen.
SeenAfter_never(tool, seen_names) == seen_names

\* seen_names after the body of the loop has run for tool (lines 58-63):
\* a name is added when it is not empty and not yet seen.
SeenAfter(tool, seen_names) ==
    IF tool.name = "" \/ tool.name \in seen_names THEN seen_names
    ELSE seen_names \union {tool.name}

\* The body of the loop with the description check of lines 65-66 moved
\* before the name check of lines 58-63.
ToolWarnings_description_first(tool, seen_names) ==
    (IF tool.description = ""
     THEN <<"Tool '" \o tool.name \o "' has no description.">> ELSE <<>>)
    \o (IF tool.name = "" THEN <<"A tool has no name.">>
        ELSE IF tool.name \in seen_names
        THEN <<"Duplicate tool name: '" \o tool.name \o "'.">>
        ELSE <<>>)
    \o (IF tool.params = <<>> /\ tool.sample_code = ""
        THEN <<"Tool '" \o tool.name \o "' has no params and no sample_code.">>
        ELSE <<>>)

\* The warnings the body of the loop appends for tool (lines 58-68).
ToolWarnings(tool, seen_names) ==
    (IF tool.name = "" THEN <<"A tool has no name.">>
     ELSE IF tool.name \in seen_names
     THEN <<"Duplicate tool name: '" \o tool.name \o "'.">>
     ELSE <<>>)
    \o (IF tool.description = ""
        THEN <<"Tool '" \o tool.name \o "' has no description.">> ELSE <<>>)
    \o (IF tool.params = <<>> /\ tool.sample_code = ""
        THEN <<"Tool '" \o tool.name \o "' has no params and no sample_code.">>
        ELSE <<>>)

\* for tool in manifest.tools, from the k-th tool on.
RECURSIVE ValidateLoop(_, _, _, _)
ValidateLoop(tools, k, seen_names, warnings) ==
    IF k > Len(tools) THEN warnings
    ELSE ValidateLoop(tools, k + 1, SeenAfter(tools[k], seen_names),
                      warnings \o ToolWarnings(tools[k], seen_names))

validate(m) ==
    ValidateLoop(m.tools, 1, {},
                 (IF m.name = "" THEN <<"Manifest has no name.">> ELSE <<>>)
                 \o (IF m.tools = <<>> THEN <<"Manifest has no tools.">>
                     ELSE <<>>))

(***************************************************************************)
(* The Manifests validate is called with under SpecValidate: up to          *)
(* MaxValidated tools, among them tools that share a name, a tool without a *)
(* name, tools without a description and tools with neither params nor      *)
(* sample code.                                                             *)
(***************************************************************************)

MaxValidated == 3

ValidatedManifests ==
    {Manifest(name, "", tools) :
        name \in {"", "Store"},
        tools \in SeqsUpTo({
            Tool("find", "Finds.",
                 <<Param("q", "string", "Q.", TRUE, None)>>, "", ""),
            Tool("find", "", <<>>, "", "run();"),
            Tool("get", "Gets.", <<>>, "", ""),
            Tool("", "Anon.", <<>>, "", "")}, MaxValidated)}

InitValidate ==
    /\ pc = "built"
    /\ markdown = ""
    /\ dialect = "none"
    /\ result = NoCall
    /\ manifest \in ValidatedManifests
    /\ out = ""
    /\ reparsed = NoCall
    /\ ts = ""
    /\ NoCallMade

\* warnings = validate(manifest)
Validate ==
    /\ pc = "built"
    /\ call' = [op |-> "validate"]
    /\ ret' = Returned(validate(manifest))
    /\ pc' = "validated"
    /\ UNCHANGED <<markdown, dialect, result, manifest, out, reparsed, ts>>
    /\ UNCHANGED <<requests, url, closed, self_manifest>>

SpecValidate == InitValidate /\ [][Validate]_vars

(***************************************************************************)
(* discovery.py.  The two patterns are searched without regard to case      *)
(* (re.IGNORECASE): the literals are looked for in the lowered text l, the  *)
(* captured group is taken from the text h itself.                          *)
(***************************************************************************)

\* The character class ["'].
Quotes == {"\"", "'"}

\* [^>]* can span the places a..b of h.
NoTagEnd(h, a, b) == \A x \in a..b : Char(h, x) # ">"

\* The place of the quote that ends  content=["']([^"']+)["']  matched at k.
ContentEnd(h, k) ==
    First(k + 9, Len(h), {q \in (k + 9)..Len(h) : Char(h, q) \in Quotes})

\* The places j from a on where, after [^>]*,  name=["']webagents-md["']
\* matches.
NamePlaces(h, l, a) ==
    {j \in a..Len(h) :
        /\ NoTagEnd(h, a, j - 1)
        /\ HasAt(l, "name=", j)
        /\ Char(l, j + 5) \in Quotes
        /\ HasAt(l, "webagents-md", j + 6)
        /\ Char(l, j + 18) \in Quotes}

\* The places k from a on where, after [^>]*,  content=["']([^"']+)["']
\* matches.
ContentPlaces(h, l, a) ==
    {k \in a..Len(h) :
        /\ NoTagEnd(h, a, k - 1)
        /\ HasAt(l, "content=", k)
        /\ Char(h, k + 8) \in Quotes
        /\ ContentEnd(h, k) > k + 9
        /\ ContentEnd(h, k) <= Len(h)}

\* <meta\s+  matches at place i.
MetaTagAt(h, l, i) == HasAt(l, "<meta", i) /\ IsSpace(Char(h, i + 5))

\* The place a greedy [^>]* leaves the attribute at: the last one.
Greediest(S) == CHOOSE j \in S : \A k \in S : k <= j

\* The match whose content attribute is at place k.
MetaMatchAt(h, k) ==
    [matched |-> TRUE, g1 |-> SubSeq(h, k + 9, ContentEnd(h, k) - 1)]

\* The places of the name attribute in a match of _META_PATTERN at place i.
NameThenContent(h, l, i) ==
    {j \in NamePlaces(h, l, i + 6) : ContentPlaces(h, l, j + 19) # {}}

\* The places of the content attribute in a match of _META_PATTERN_REVERSED.
ContentThenName(h, l, i) ==
    {k \in ContentPlaces(h, l, i + 6) :
        NamePlaces(h, l, ContentEnd(h, k) + 1) # {}}

\* _META_PATTERN.search(h), l being h in lower case:
\*   <meta\s+[^>]*name=["']webagents-md["'][^>]*content=["']([^"']+)["']
META_PATTERN(h, l) ==
    LET starts == {i \in 1..Len(h) :
                     MetaTagAt(h, l, i) /\ NameThenContent(h, l, i) # {}}
    IN  IF starts = {} THEN NoMatch
        ELSE MetaMatchAt(h, Greediest(ContentPlaces(h, l,
                 Greediest(NameThenContent(h, l,
                     First(1, Len(h), starts))) + 19)))

\* _META_PATTERN_REVERSED.search(h), l being h in lower case:
\*   <meta\s+[^>]*content=["']([^"']+)["'][^>]*name=["']webagents-md["']
META_PATTERN_REVERSED(h, l) ==
    LET starts == {i \in 1..Len(h) :
                     MetaTagAt(h, l, i) /\ ContentThenName(h, l, i) # {}}
    IN  IF starts = {} THEN NoMatch
        ELSE MetaMatchAt(h, Greediest(ContentThenName(h, l,
                 First(1, Len(h), starts))))

\* match = _META_PATTERN.search(html) or _META_PATTERN_REVERSED.search(html)
MetaMatch(html) ==
    IF META_PATTERN(html, Lower(html)).matched
    THEN META_PATTERN(html, Lower(html))
    ELSE META_PATTERN_REVERSED(html, Lower(html))

\* urljoin(base, ref) for an absolute http(s) base without query or fragment
\* and a ref that is an absolute URL, a path that starts with one "/", or a
\* path without "." and ".." segments relative to the directory of base.
\* The path of base starts at the first "/" after "://", and its directory
\* ends at its last "/".
urljoin(base, ref) ==
    LET from == Find(base, "://", 1) + 3
        first == IndexOf(base, "/", from)
        last == Last(from, Len(base),
                     {j \in from..Len(base) : Char(base, j) = "/"})
    IN  IF ref = "" THEN base
        ELSE IF Contains(ref, "://") THEN ref
        ELSE IF StartsWith(ref, "/")
        THEN SubSeq(base, 1, first - 1) \o ref
        ELSE IF last < from THEN base \o "/" \o ref
        ELSE SubSeq(base, 1, last) \o ref

\* An httpx response: error names the exception client.get raised, if any.
Response(error, status, text) ==
    [error |-> error, status |-> status, text |-> text]

\* resp.raise_for_status() without its test: no status is a failure.
raise_for_status_never(resp) == ""

\* resp.raise_for_status(): the exception raised, "" for a success status.
raise_for_status(resp) ==
    IF resp.status \in 200..299 THEN "" ELSE "HTTPStatusError"

\* The exception  resp = await client.get(...); resp.raise_for_status()
\* raises, "" if none.
FetchFailure(resp) ==
    IF resp.error # "" THEN resp.error ELSE raise_for_status(resp)

\* Lines 34-38 with a well-known path in the place of  return None.
ManifestUrlOf_well_known(page_url, match) ==
    IF ~match.matched THEN Returned(Some(urljoin(page_url, "/webagents.md")))
    ELSE Returned(Some(urljoin(page_url, match.g1)))

\* Lines 34-38 of discover_manifest_url: None, or the URL of the manifest.
ManifestUrlOf(page_url, match) ==
    IF ~match.matched THEN Returned(None)
    ELSE Returned(Some(urljoin(page_url, match.g1)))

\* discover_manifest_url(page_url) when the page request gets resp.
discover_manifest_url(page_url, resp) ==
    IF FetchFailure(resp) # "" THEN Raised(FetchFailure(resp))
    ELSE ManifestUrlOf(page_url, MetaMatch(resp.text))

\* fetch_manifest(manifest_url) when the manifest request gets resp.
fetch_manifest(resp) ==
    IF FetchFailure(resp) # "" THEN Raised(FetchFailure(resp))
    ELSE parse(resp.text)

\* should_close = client is None:  the argument client is None, or Some of
\* the client the caller supplied.
should_close_always(client) == TRUE

should_close(client) == client = None

\* client = client or httpx.AsyncClient(follow_redirects=True):  the client
\* the function works with.
ClientOr(client) == IF client = None THEN Some("created") ELSE client

\* The finally block of discover_manifest_url, fetch_manifest and discover,
\* run when done requests have been made: closes is the list of the aclose()
\* calls made so far.
Finally(client, closes, done) ==
    IF should_close(client)
    THEN Append(closes, [client |-> ClientOr(client)[1], after |-> done])
    ELSE closes

(***************************************************************************)
(* The network: the pages and the manifests the servers may answer with.    *)
(***************************************************************************)

PageUrls == {"https://shop.example.com/", "https://shop.example.com/docs/api"}

\* A transport failure, a page not found, and pages with and without a tag.
PageResponses ==
    {Response("ConnectError", 0, ""),
     Response("", 404, "<meta name=\"webagents-md\" content=\"/webagents.md\">")}
    \union {Response("", 200, html) : html \in {
        "<meta name=\"webagents-md\" content=\"/webagents.md\">",
        "<meta content='agents.md' name='webagents-md'>",
        "<META NAME=\"WebAgents-MD\" CONTENT=\"https://cdn.example.com/w.md\">",
        "<meta charset=\"utf-8\"><p>Shop</p>"}}

\* A transport failure, a manifest not found, and bodies of both dialects,
\* one that parse raises on and an empty one.
ManifestResponses ==
    {Response("ConnectError", 0, ""),
     Response("", 404, "tool: get(id, n='5')\n")}
    \union {Response("", 200, body) : body \in {
        "tool: get(id, n='5')\n", "# Shop\nMore.\n",
        "tool: \ntool: get(id, n='5')\n", ""}}

(***************************************************************************)
(* The agent.  It holds one AgentClient and calls its methods and the       *)
(* functions of discovery.py one after the other.  A call that fetches      *)
(* waits at "page" or at "manifest" until the response is there.            *)
(***************************************************************************)

InitAgent ==
    /\ pc = "ready"
    /\ markdown = ""
    /\ dialect = "none"
    /\ result = NoCall
    /\ manifest = Manifest("", "", <<>>)
    /\ out = ""
    /\ reparsed = NoCall
    /\ ts = ""
    /\ NoCallMade

\* The clients a caller of discovery.py passes: none, or one of its own.
CallerClients == {None, Some("caller")}

\* AgentClient._http, which the methods of the agent pass.
self_http == Some("self._http")

\* The call op(arg, client=client) starts and waits for its first response.
Begin(op, arg, client, at) ==
    /\ pc = "ready"
    /\ pc' = at
    /\ call' = [op |-> op, arg |-> arg, client |-> client]
    /\ ret' = NoCall
    /\ requests' = <<>>
    /\ url' = None
    /\ closed' = <<>>
    /\ UNCHANGED self_manifest
    /\ UNCHANGED <<markdown, dialect, result, manifest, out, reparsed, ts>>

\* await discover_manifest_url(page_url, client=client)
DiscoverManifestUrl ==
    \E page_url \in PageUrls, client \in CallerClients :
        Begin("discover_manifest_url", page_url, client, "page")

\* await fetch_manifest(manifest_url, client=client)
FetchManifest ==
    \E manifest_url \in {"https://shop.example.com/webagents.md"},
       client \in CallerClients :
        Begin("fetch_manifest", manifest_url, client, "manifest")

\* await discover(page_url, client=client)
Discover ==
    \E page_url \in PageUrls, client \in CallerClients :
        Begin("discover", page_url, client, "page")

\* await agent.detect(page_url)
Detect == \E page_url \in PageUrls : Begin("detect", page_url, self_http, "page")

\* await agent.detect_url(page_url)
DetectUrl ==
    \E page_url \in PageUrls : Begin("detect_url", page_url, self_http, "page")

\* await agent.load(manifest_url)
Load ==
    \E manifest_url \in {"https://shop.example.com/webagents.md"} :
        Begin("load", manifest_url, self_http, "manifest")

\* The call goes on to fetch_manifest: discover and detect do when
\* discover_manifest_url returned a URL.
FetchesManifest(r) ==
    call.op \in {"discover", "detect"} /\ r.raised = "" /\ r.value # None

\* The finally blocks run after a request: the one of the function that made
\* it, called by discover with discover's own client, and the one of discover
\* when discover ends with it.
FinallyBlocks(finished) ==
    LET nested == call.op \in {"discover", "detect"}
        inner == Finally(IF nested THEN ClientOr(call.client) ELSE call.client,
                         closed, Len(requests) + 1)
    IN IF nested /\ finished
       THEN Finally(call.client, inner, Len(requests) + 1)
       ELSE inner

\* self._manifest after detect or load, where the awaited discover or
\* fetch_manifest did r and self._manifest was loaded: the assignment is not
\* reached when the await raised.
AssignedManifest_unless_none(op, r, loaded) ==
    IF r.raised # "" THEN loaded
    ELSE IF op = "detect" THEN (IF r.value = None THEN loaded ELSE r.value)
    ELSE IF op = "load" THEN Some(r.value)
    ELSE loaded

AssignedManifest(op, r, loaded) ==
    IF r.raised # "" THEN loaded
    ELSE IF op = "detect" THEN r.value
    ELSE IF op = "load" THEN Some(r.value)
    ELSE loaded

\* resp = await client.get(page_url) of discover_manifest_url gets resp, and r
\* is what discover_manifest_url does with it.
AfterPage(resp, r) ==
    /\ requests' = Append(requests, [url |-> call.arg, response |-> resp])
    /\ url' = IF r.raised = "" THEN r.value ELSE None
    /\ pc' = IF FetchesManifest(r) THEN "manifest" ELSE "ready"
    /\ ret' = IF FetchesManifest(r) THEN ret ELSE r
    /\ closed' = FinallyBlocks(~FetchesManifest(r))
    /\ self_manifest' = IF FetchesManifest(r) THEN self_manifest
                        ELSE AssignedManifest(call.op, r, self_manifest)
    /\ UNCHANGED call
    /\ UNCHANGED <<markdown, dialect, result, manifest, out, reparsed, ts>>

PageFetched ==
    /\ pc = "page"
    /\ \E resp \in PageResponses :
        AfterPage(resp, discover_manifest_url(call.arg, resp))

\* resp = await client.get(manifest_url) of fetch_manifest gets resp, and r is
\* what fetch_manifest does with it.
AfterManifest(resp, r) ==
    /\ requests' = Append(requests,
                          [url |-> IF call.op \in {"fetch_manifest", "load"}
                                   THEN call.arg ELSE url[1],
                           response |-> resp])
    /\ pc' = "ready"
    /\ ret' = IF call.op \in {"discover", "detect"} /\ r.raised = ""
              THEN Returned(Some(r.value)) ELSE r
    /\ closed' = FinallyBlocks(TRUE)
    /\ self_manifest' = AssignedManifest(call.op, ret', self_manifest)
    /\ UNCHANGED <<call, url>>
    /\ UNCHANGED <<markdown, dialect, result, manifest, out, reparsed, ts>>

ManifestFetched ==
    /\ pc = "manifest"
    /\ \E resp \in ManifestResponses : AfterManifest(resp, fetch_manifest(resp))

(***************************************************************************)
(* types.py: the lookups of a Manifest.                                     *)
(***************************************************************************)

\* Manifest.tool_names
tool_names(m) == [i \in 1..Len(m.tools) |-> m.tools[i].name]

\* The places of the tools of m called name.
ToolsNamed(m, name) == {i \in 1..Len(m.tools) : m.tools[i].name = name}

\* Manifest.get_tool with the loop run from the end of the list.
Manifest_get_tool_last(m, name) ==
    IF ToolsNamed(m, name) = {} THEN None
    ELSE Some(m.tools[Last(1, Len(m.tools), ToolsNamed(m, name))])

\* Manifest.get_tool(name): the first tool of that name, or None.
Manifest_get_tool(m, name) ==
    IF ToolsNamed(m, name) = {} THEN None
    ELSE Some(m.tools[First(1, Len(m.tools), ToolsNamed(m, name))])

(***************************************************************************)
(* client.py: the methods of AgentClient that read self._manifest.  Their   *)
(* argument loaded is self._manifest: None or Some(manifest).               *)
(***************************************************************************)

NoManifestLoaded ==
    Raised("RuntimeError: No manifest loaded. Call detect() or load() first.")

\* list_tools without its test of self._manifest.
list_tools_of_none(loaded) ==
    IF loaded = None THEN Returned(<<>>)
    ELSE Returned(tool_names(loaded[1]))

\* AgentClient.list_tools()
list_tools(loaded) ==
    IF loaded = None THEN NoManifestLoaded
    ELSE Returned(tool_names(loaded[1]))

\* AgentClient.get_tool(name).  The message of the KeyError holds the repr()
\* of the list of tool names (names without quote characters).
get_tool(loaded, name) ==
    IF loaded = None THEN NoManifestLoaded
    ELSE IF Manifest_get_tool(loaded[1], name) = None
    THEN Raised("KeyError: Tool '" \o name \o "' not found. Available: ["
                \o Join([i \in 1..Len(loaded[1].tools) |->
                            "'" \o tool_names(loaded[1])[i] \o "'"], ", ")
                \o "]")
    ELSE Returned(Manifest_get_tool(loaded[1], name)[1])

\* AgentClient.typescript()
typescript(loaded) ==
    IF loaded = None THEN NoManifestLoaded
    ELSE Returned(generate_typescript(loaded[1]))

\* AgentClient.context_for_llm()
context_for_llm(loaded) ==
    IF loaded = None THEN NoManifestLoaded
    ELSE Returned(generate_typescript(loaded[1])
                  \o (IF loaded[1].content # ""
                      THEN "\n/*\n" \o loaded[1].content \o "\n*/\n"
                      ELSE ""))

\* AgentClient.system_prompt(task=task)
system_prompt(loaded, task) ==
    IF loaded = None THEN NoManifestLoaded
    ELSE Returned(
        "You are interacting with a website called '"
        \o (IF loaded[1].name # "" THEN loaded[1].name ELSE "this website")
        \o "'. "
        \o "You have access to the following TypeScript API that runs in the browser:\n\n"
        \o context_for_llm(loaded).value \o "\n\n"
        \o "Use the execute_js tool to write JavaScript code that calls these functions. "
        \o "Use ~await~ for async calls and ~return~ the final result. "
        \o "Chain multiple calls in a single code block when needed. "
        \o "Avoid asking the user for clarification. If you need information to complete a request, "
        \o "use the available tools to look it up yourself whenever possible. "
        \o "When you're done, briefly summarize what you did."
        \o (IF task # "" THEN "\n\nTask: " \o task ELSE ""))

(***************************************************************************)
(* client.py: execute.  A value page.evaluate returns is a record: t is its *)
(* Python type (null for None, str, int, bool, list, dict, or datetime, a    *)
(* type json.dumps cannot render), v its value; the v of a list is the      *)
(* sequence of its items, the v of a dict the sequence of its pairs         *)
(* <<key, value>>.  An exception is a record of its type (raised) and its    *)
(* str() (message).                                                         *)
(***************************************************************************)

\* The string escapes of json.dumps, for texts of printable ASCII and "\n".
RECURSIVE JsonEscape(_)
JsonEscape(s) ==
    IF s = "" THEN ""
    ELSE (IF Head(s) = "\"" THEN "\\\""
          ELSE IF Head(s) = "\\" THEN "\\\\"
          ELSE IF Head(s) = "\n" THEN "\\n"
          ELSE Head(s)) \o JsonEscape(Tail(s))

\* json.dumps can render v.
RECURSIVE Serializable(_)
Serializable(v) ==
    IF v.t = "list" THEN \A i \in 1..Len(v.v) : Serializable(v.v[i])
    ELSE IF v.t = "dict" THEN \A i \in 1..Len(v.v) : Serializable(v.v[i][2])
    ELSE v.t # "datetime"

\* The text json.dumps(v) returns for a v it can render.
RECURSIVE JsonText(_)
JsonText(v) ==
    IF v.t = "null" THEN "null"
    ELSE IF v.t = "str" THEN "\"" \o JsonEscape(v.v) \o "\""
    ELSE IF v.t = "int" THEN ToString(v.v)
    ELSE IF v.t = "bool" THEN (IF v.v THEN "true" ELSE "false")
    ELSE IF v.t = "list"
    THEN "[" \o Join([i \in 1..Len(v.v) |-> JsonText(v.v[i])], ", ") \o "]"
    ELSE "{" \o Join([i \in 1..Len(v.v) |->
                        "\"" \o JsonEscape(v.v[i][1]) \o "\": "
                        \o JsonText(v.v[i][2])], ", ") \o "}"

\* json.dumps(v)
json_dumps(v) ==
    IF Serializable(v) THEN Returned(JsonText(v))
    ELSE [raised |-> "TypeError",
          message |-> "Object of type datetime is not JSON serializable"]

\* except Exception as e: return json.dumps({"error": str(e)})
ErrorJson(e) ==
    JsonText([t |-> "dict",
              v |-> <<<<"error", [t |-> "str", v |-> e.message]>>>>])

\* Line 226 with json.dumps applied to a str as well.
Rendered_dumps_all(value) == json_dumps(value)

\* str(result) if isinstance(result, str) else json.dumps(result)
Rendered(value) ==
    IF value.t = "str" THEN Returned(value.v) ELSE json_dumps(value)

\* AgentClient.execute(page, code) when page.evaluate(wrapped) does evaluated:
\* it returns a value or raises an exception.
execute(evaluated) ==
    IF evaluated.raised # "" THEN ErrorJson(evaluated)
    ELSE IF evaluated.value.t = "null" THEN "undefined"
    ELSE IF Rendered(evaluated.value).raised # ""
    THEN ErrorJson(Rendered(evaluated.value))
    ELSE Rendered(evaluated.value).value

(***************************************************************************)
(* What the agent calls the methods with.                                   *)
(***************************************************************************)

\* What page.evaluate may do: return one of these values, or raise.
Evaluations == <<
    Returned([t |-> "null"]),
    Returned([t |-> "str", v |-> "ok"]),
    Returned([t |-> "str", v |-> ""]),
    Returned([t |-> "int", v |-> 3]),
    Returned([t |-> "bool", v |-> TRUE]),
    Returned([t |-> "list",
              v |-> <<[t |-> "int", v |-> 1], [t |-> "str", v |-> "a\"b"]>>]),
    Returned([t |-> "dict",
              v |-> <<<<"n", [t |-> "null"]>>,
                      <<"l", [t |-> "list", v |-> <<>>]>>>>]),
    Returned([t |-> "datetime"]),
    Returned([t |-> "list", v |-> <<[t |-> "datetime"]>>]),
    [raised |-> "Error", message |-> "boom"],
    [raised |-> "TimeoutError", message |-> "say \"hi\"\n"]
>>

\* A method that fetches nothing is called and returns at once.
Finish(c, r, loaded) ==
    /\ pc = "ready"
    /\ pc' = "ready"
    /\ call' = c
    /\ ret' = r
    /\ self_manifest' = loaded
    /\ requests' = <<>>
    /\ url' = None
    /\ closed' = <<>>
    /\ UNCHANGED <<markdown, dialect, result, manifest, out, reparsed, ts>>

\* agent.load_manifest(manifest)
LoadManifest ==
    \E m \in {Manifest("Store", "Desc.",
                        <<Tool("find", "Finds.",
                               <<Param("q", "string", "Q.", TRUE, None)>>,
                               "", ""),
                          Tool("get", "Gets.", <<>>, "R", ""),
                          Tool("find", "Finds again.", <<>>, "", "run();")>>),
               Manifest("", "", <<>>)} :
        Finish([op |-> "load_manifest", arg |-> m], Returned(None), Some(m))

\* agent.list_tools()
ListTools ==
    Finish([op |-> "list_tools"], list_tools(self_manifest), self_manifest)

\* agent.get_tool(name)
GetTool ==
    \E name \in {"find", "get", "nope"} :
        Finish([op |-> "get_tool", arg |-> name],
               get_tool(self_manifest, name), self_manifest)

\* agent.typescript()
Typescript ==
    Finish([op |-> "typescript"], typescript(self_manifest), self_manifest)

\* agent.context_for_llm()
ContextForLlm ==
    Finish([op |-> "context_for_llm"], context_for_llm(self_manifest),
           self_manifest)

\* agent.system_prompt(task=task)
SystemPrompt ==
    \E task \in {"", "Buy a book."} :
        Finish([op |-> "system_prompt", arg |-> task],
               system_prompt(self_manifest, task), self_manifest)

\* await agent.execute(page, code): page.evaluate is called with wrapped,
\*   f"(async () => {{ const global = globalThis; {code} }})()"
Execute ==
    \E code \in {"return 1"}, k \in DOMAIN Evaluations :
        Finish([op |-> "execute", arg |-> code,
                wrapped |-> "(async () => { const global = globalThis; "
                            \o code \o " })()",
                evaluated |-> Evaluations[k]],
               Returned(execute(Evaluations[k])), self_manifest)

NextAgent ==
    \/ DiscoverManifestUrl \/ FetchManifest \/ Discover
    \/ Detect \/ DetectUrl \/ Load
    \/ PageFetched \/ ManifestFetched
    \/ LoadManifest \/ ListTools \/ GetTool
    \/ Typescript \/ ContextForLlm \/ SystemPrompt
    \/ Execute

SpecAgent == InitAgent /\ [][NextAgent]_vars

(***************************************************************************)
(* The properties.  C1 to C9 are checked under Spec unless they speak of a *)
(* Manifest built with the constructors (C3, C6, C10: SpecBuilt).          *)
(***************************************************************************)

\* Every character of s is whitespace (s is blank).
AllWhitespace(s) == \A i \in 1..Len(s) : IsSpace(SubSeq(s, i, i))

\* The two sequences of Params agree on name, type, required and default.
ParamsAgree(ps, qs) ==
    /\ Len(ps) = Len(qs)
    /\ \A j \in 1..Len(ps) :
        /\ ps[j].name = qs[j].name
        /\ ps[j].type = qs[j].type
        /\ ps[j].required = qs[j].required
        /\ ps[j].default = qs[j].default

\* C1: parse(markdown) returns a Manifest for every text, and never raises.
C1_ParseNeverRaises == pc # "start" => result.raised = ""

\* C2: for every Manifest m that parse produced through the heading dialect,
\* parse(to_markdown(m)) has the same name, the same tool names in the same
\* order, and for every tool the same description, the same sample_code and
\* the same params in order (name, type, required, default).
C2_HeadingRoundTrip ==
    (pc = "reparsed" /\ dialect = "heading") =>
        /\ reparsed.raised = ""
        /\ reparsed.value.name = manifest.name
        /\ Len(reparsed.value.tools) = Len(manifest.tools)
        /\ \A i \in 1..Len(manifest.tools) :
            /\ reparsed.value.tools[i].name = manifest.tools[i].name
            /\ reparsed.value.tools[i].description = manifest.tools[i].description
            /\ reparsed.value.tools[i].sample_code = manifest.tools[i].sample_code
            /\ ParamsAgree(reparsed.value.tools[i].params, manifest.tools[i].params)

\* The member signature of the tool in the declarations renders the param as
\* optional:  name?: type.
RenderedOptional(text, tool, param) ==
    \E k \in 1..Len(SplitLines(text)) :
        LET line == SplitLines(text)[k] IN
        /\ StartsWith(line, "  " \o tool.name \o "(")
        /\ \/ Contains(line, "(" \o param.name \o "?: ")
           \/ Contains(line, ", " \o param.name \o "?: ")

\* C3: generate_typescript renders every Param whose default is not None as
\* optional (name?: type) in the member signature, whatever its required flag.
C3_DefaultRendersOptional ==
    pc = "generated" =>
        \A i \in 1..Len(manifest.tools) :
            \A j \in 1..Len(manifest.tools[i].params) :
                manifest.tools[i].params[j].default # None =>
                    RenderedOptional(ts, manifest.tools[i], manifest.tools[i].params[j])

\* C4: every Param of every Manifest parse returns, in either dialect and for
\* any order of the modifiers, has required = FALSE when its default is not
\* None.
C4_DefaultImpliesNotRequired ==
    result.raised = "" =>
        \A i \in 1..Len(result.value.tools) :
            \A j \in 1..Len(result.value.tools[i].params) :
                result.value.tools[i].params[j].default # None =>
                    ~result.value.tools[i].params[j].required

\* C5: for every Manifest m that parse produced from compact text,
\* parse(to_markdown(m)) has the same tools in order, each with the same
\* params in order (name, type, required, default), the same description,
\* returns and sample_code.
C5_CompactRoundTrip ==
    (pc = "reparsed" /\ dialect = "compact") =>
        /\ reparsed.raised = ""
        /\ Len(reparsed.value.tools) = Len(manifest.tools)
        /\ \A i \in 1..Len(manifest.tools) :
            /\ reparsed.value.tools[i].name = manifest.tools[i].name
            /\ reparsed.value.tools[i].description = manifest.tools[i].description
            /\ reparsed.value.tools[i].returns = manifest.tools[i].returns
            /\ reparsed.value.tools[i].sample_code = manifest.tools[i].sample_code
            /\ ParamsAgree(reparsed.value.tools[i].params, manifest.tools[i].params)

\* C6: for every Manifest m built with the constructors, parse(to_markdown(m))
\* has the same name, the same tool names in order, and for every tool the
\* same number of params with the same required flag at each position.
C6_BuiltRoundTrip ==
    pc = "reparsed" =>
        /\ reparsed.raised = ""
        /\ reparsed.value.name = manifest.name
        /\ Len(reparsed.value.tools) = Len(manifest.tools)
        /\ \A i \in 1..Len(manifest.tools) :
            /\ reparsed.value.tools[i].name = manifest.tools[i].name
            /\ Len(reparsed.value.tools[i].params) = Len(manifest.tools[i].params)
            /\ \A j \in 1..Len(manifest.tools[i].params) :
                reparsed.value.tools[i].params[j].required
                    = manifest.tools[i].params[j].required

\* The lines of the text parse works on.
LinesOf(text) == Split(Strip(text), "\n")

\* Line k opens a tool: block: it starts with "tool:" followed by whitespace
\* (the end of the line, when another line follows, is whitespace too).
OpensToolBlock(lines, k) ==
    /\ StartsWith(lines[k], "tool:")
    /\ \/ IsSpace(Char(lines[k], 6))
       \/ Len(lines[k]) = 5 /\ k < Len(lines)

\* The numbers of the lines that open a tool: block, in document order.
ToolBlockLines(lines) ==
    LET Opens(k) == OpensToolBlock(lines, k)
    IN SelectSeq([k \in 1..Len(lines) |-> k], Opens)

\* Some line of the text has the shape  tool: name(args).
HasToolLine(text) ==
    \E k \in 1..Len(LinesOf(text)) : TOOL_HEADER_RE(LinesOf(text)[k]).matched

\* Some line of the text starts with "## ".
HasHeadingLine(text) ==
    \E k \in 1..Len(LinesOf(text)) : StartsWith(LinesOf(text)[k], "## ")

\* The tools are one per tool: block, in document order: as many tools as
\* blocks, and the n-th tool has the name of the n-th block's  tool: name(args)
\* line.
OneToolPerBlock(tools, lines, blocks) ==
    /\ Len(tools) = Len(blocks)
    /\ \A n \in 1..Len(blocks) :
        TOOL_HEADER_RE(lines[blocks[n]]).matched =>
            tools[n].name = TOOL_HEADER_RE(lines[blocks[n]]).g1

\* C7: when the text holds a line of the shape  tool: name(args),  parse takes
\* the compact dialect for the whole document, "## " lines or not, and the
\* tools of the Manifest it returns are one per tool: block, in document
\* order: no "## " line adds a tool.
C7_ToolLineSelectsCompact ==
    (pc # "start" /\ HasToolLine(markdown)) =>
        /\ dialect = "compact"
        /\ result.raised = "" =>
              OneToolPerBlock(result.value.tools, LinesOf(markdown),
                              ToolBlockLines(LinesOf(markdown)))

\* C7 happens: a document with a "## " line and a  tool: name(args)  line has
\* been parsed.
C7_Witness ==
    /\ pc = "parsed"
    /\ HasToolLine(markdown)
    /\ HasHeadingLine(markdown)
    /\ Len(result.value.tools) = 1

\* C8: parsing the empty string or a whitespace-only string yields a Manifest
\* with empty name, empty description, no tools and empty content.
C8_BlankGivesEmptyManifest ==
    (pc # "start" /\ AllWhitespace(markdown)) =>
        /\ result.raised = ""
        /\ result.value.name = ""
        /\ result.value.description = ""
        /\ result.value.tools = <<>>
        /\ result.value.content = ""

\* C8 happens: a whitespace-only text that is not empty has been parsed.
C8_Witness == pc = "parsed" /\ markdown # "" /\ AllWhitespace(markdown)

\* c is s without its leading and trailing whitespace (s is not blank).
IsTrimOf(c, s) ==
    \E i \in 1..Len(s) :
        /\ ~IsSpace(SubSeq(s, i, i))
        /\ \A k \in 1..(i - 1) : IsSpace(SubSeq(s, k, k))
        /\ \E j \in i..Len(s) :
            /\ ~IsSpace(SubSeq(s, j, j))
            /\ \A k \in (j + 1)..Len(s) : IsSpace(SubSeq(s, k, k))
            /\ c = SubSeq(s, i, j)

\* C9: for every text that is not blank, in both dialects, the content of the
\* Manifest parse returns is the whole text without its leading and trailing
\* whitespace, the sections that are not tools included.
C9_ContentIsTrimmedText ==
    (pc # "start" /\ ~AllWhitespace(markdown) /\ result.raised = "") =>
        IsTrimOf(result.value.content, markdown)

\* C9 happens: a compact document with a section that is no tool and with
\* whitespace to trim has been parsed.
C9_Witness ==
    /\ pc = "parsed"
    /\ dialect = "compact"
    /\ Contains(result.value.content, "## Important\n- Rate limit: 10/min.")
    /\ result.value.content # markdown

\* The text ends with exactly one newline and no other trailing whitespace.
EndsWithOneNewline(text) ==
    /\ Len(text) >= 1
    /\ SubSeq(text, Len(text), Len(text)) = "\n"
    /\ Len(text) = 1 \/ ~IsSpace(SubSeq(text, Len(text) - 1, Len(text) - 1))

\* The numbers of the "## " lines, in order.
HeadingLines(lines) ==
    LET IsHeading(k) == StartsWith(lines[k], "## ")
    IN SelectSeq([k \in 1..Len(lines) |-> k], IsHeading)

\* The "### " lines a tool's block is to hold, in order.
SubHeadingsOf(tool) ==
    (IF tool.params # <<>> THEN <<"### Params">> ELSE <<>>)
    \o (IF tool.returns # "" THEN <<"### Output">> ELSE <<>>)
    \o (IF tool.sample_code # "" THEN <<"### Sample Code">> ELSE <<>>)

\* The lines from..to hold the block of the tool: its "### " lines are the
\* sub-headings of its non-empty fields in the order Params, Output, Sample
\* Code, and its param lines name its params in order.
IsBlockOf(tool, block) ==
    LET IsSubHeading(line) == StartsWith(line, "### ")
        IsParamLine(line) == StartsWith(line, "- " \o Backtick)
        param_lines == SelectSeq(block, IsParamLine)
    IN  /\ SelectSeq(block, IsSubHeading) = SubHeadingsOf(tool)
        /\ Len(param_lines) = Len(tool.params)
        /\ \A j \in 1..Len(tool.params) :
            StartsWith(param_lines[j],
                       "- " \o Backtick \o tool.params[j].name \o Backtick \o " (")

\* The text holds one "## name" block per tool, in the order of the tools.
OneBlockPerTool(tools, lines, headings) ==
    /\ Len(headings) = Len(tools)
    /\ \A n \in 1..Len(tools) :
        /\ lines[headings[n]] = "## " \o tools[n].name
        /\ IsBlockOf(tools[n],
                     SubSeq(lines, headings[n] + 1,
                            IF n < Len(tools) THEN headings[n + 1] - 1
                            ELSE Len(lines)))

\* C10: for every Manifest, the empty one included, the text to_markdown
\* returns ends with exactly one newline and no other trailing whitespace, and
\* holds one "## name" block per tool in the order of manifest.tools, each with
\* its param lines in the order of tool.params and with the Params, Output and
\* Sample Code sub-sections in that order, each only when its field is not
\* empty.
C10_SerializedLayout ==
    pc = "serialized" =>
        /\ EndsWithOneNewline(out)
        /\ OneBlockPerTool(manifest.tools, Split(out, "\n"),
                           HeadingLines(Split(out, "\n")))

\* C10 happens: a Manifest of two tools, one with every field and one with
\* none, has been serialized.
C10_Witness ==
    /\ pc = "serialized"
    /\ Len(manifest.tools) = 2
    /\ manifest.tools[1].params # <<>>
    /\ manifest.tools[1].returns # ""
    /\ manifest.tools[1].sample_code # ""
    /\ manifest.tools[2].params = <<>>

\* The TypeScript type the declarations are to give a Param type.
TsTypeOf(type) ==
    IF type = "object" THEN "Record<string, unknown>"
    ELSE IF type = "array" THEN "unknown[]"
    ELSE type

\* The texts p1, ..., pn that list the params from the k-th on in order, each
\* as  name: T  or  name?: T  with T the TypeScript type of its type.
RECURSIVE ParamListsOf(_, _)
ParamListsOf(params, k) ==
    IF k > Len(params) THEN {""}
    ELSE {param \o (IF rest = "" THEN "" ELSE ", " \o rest) :
            param \in {params[k].name \o mark \o ": " \o TsTypeOf(params[k].type) :
                         mark \in {"", "?"}},
            rest \in ParamListsOf(params, k + 1)}

\* The member lines  name(p1, ..., pn): Promise<R>;  a tool may get.
MemberLinesOf(tool) ==
    {"  " \o tool.name \o "(" \o list \o "): Promise<"
     \o (IF tool.returns = "" THEN "any" ELSE tool.returns) \o ">;" :
        list \in ParamListsOf(tool.params, 1)}

\* The member lines of the declarations: the lines indented by two spaces
\* that are not part of a documentation comment.
MembersIn(text) ==
    LET IsMember(line) == StartsWith(line, "  ") /\ IsWord(Char(line, 3))
    IN SelectSeq(Split(text, "\n"), IsMember)

\* C11: generate_typescript returns, for an empty tool list, the empty
\* container, and otherwise one container that holds, for every tool in list
\* order, exactly one member  name(p1, ..., pn): Promise<R>  with the params in
\* the order of tool.params, each typed by the fixed map, name() for a tool
\* without params, and R = tool.returns, or any when returns is empty.
C11_DeclarationsFollowTools ==
    pc = "generated" =>
        /\ manifest.tools = <<>> => ts = "declare const global: {};\n"
        /\ manifest.tools # <<>> =>
            /\ StartsWith(ts, "declare const global: {\n  /**\n")
            /\ SubSeq(ts, Len(ts) - 4, Len(ts)) = ";\n};\n"
            /\ Len(MembersIn(ts)) = Len(manifest.tools)
            /\ \A i \in 1..Len(manifest.tools) :
                MembersIn(ts)[i] \in MemberLinesOf(manifest.tools[i])

\* C11 happens: the declarations of a tool without params and of a tool with
\* an object param and a type outside the map have been generated.
C11_Witness ==
    /\ pc = "generated"
    /\ Len(manifest.tools) = 2
    /\ manifest.tools[1].params = <<>>
    /\ manifest.tools[2].params # <<>>
    /\ manifest.tools[2].params[1].type = "object"

\* The number of elements of seq equal to x.
Occurrences(seq, x) == Cardinality({i \in 1..Len(seq) : seq[i] = x})

\* The names of the tools, in list order.
NamesOf(tools) == [i \in 1..Len(tools) |-> tools[i].name]

\* C12: for every non-empty tool name that occurs k times in manifest.tools,
\* validate returns exactly k-1 'Duplicate tool name' warnings for that name:
\* one for two tools sharing a name, none for a name that occurs once.
C12_DuplicatesFlaggedAfterFirst ==
    pc = "validated" =>
        \A i \in 1..Len(manifest.tools) :
            manifest.tools[i].name # "" =>
                Occurrences(ret.value, "Duplicate tool name: '"
                                       \o manifest.tools[i].name \o "'.")
                = Occurrences(NamesOf(manifest.tools), manifest.tools[i].name) - 1

\* C12 happens: a Manifest in which one name occurs three times has been
\* validated.
C12_Witness ==
    /\ pc = "validated"
    /\ Occurrences(NamesOf(manifest.tools), "find") = 3

\* The warnings of the i-th tool: about its name (empty, or the name of an
\* earlier tool), then its description, then its params and sample code.
WarningsOfTool(tools, i) ==
    (IF tools[i].name = "" THEN <<"A tool has no name.">>
     ELSE IF \E j \in 1..(i - 1) : tools[j].name = tools[i].name
     THEN <<"Duplicate tool name: '" \o tools[i].name \o "'.">>
     ELSE <<>>)
    \o (IF tools[i].description = ""
        THEN <<"Tool '" \o tools[i].name \o "' has no description.">>
        ELSE <<>>)
    \o (IF tools[i].params = <<>> /\ tools[i].sample_code = ""
        THEN <<"Tool '" \o tools[i].name
               \o "' has no params and no sample_code.">>
        ELSE <<>>)

\* The warnings of the tools from the i-th on, in list order.
RECURSIVE WarningsFrom(_, _)
WarningsFrom(tools, i) ==
    IF i > Len(tools) THEN <<>>
    ELSE WarningsOfTool(tools, i) \o WarningsFrom(tools, i + 1)

\* The list of warnings a Manifest is to get.
ExpectedWarnings(m) ==
    (IF m.name = "" THEN <<"Manifest has no name.">> ELSE <<>>)
    \o (IF m.tools = <<>> THEN <<"Manifest has no tools.">> ELSE <<>>)
    \o WarningsFrom(m.tools, 1)

\* The Manifest has a name and a tool, and every tool has a name no other
\* tool has, a description and a param or a sample code.
WellFormed(m) ==
    /\ m.name # ""
    /\ m.tools # <<>>
    /\ \A i \in 1..Len(m.tools) :
        /\ m.tools[i].name # ""
        /\ \A j \in 1..Len(m.tools) :
            m.tools[j].name = m.tools[i].name => j = i
        /\ m.tools[i].description # ""
        /\ m.tools[i].params # <<>> \/ m.tools[i].sample_code # ""

\* C13: validate(manifest) leaves the manifest as it is and returns exactly
\* the 'no name' warning if the name is empty, then the 'no tools' warning if
\* there is no tool, then the warnings of each tool in list order, each
\* tool's in the order name, description, params and sample code; the list
\* is empty exactly when the Manifest is well formed.
C13_WarningsInDeclarationOrder ==
    [][pc' = "validated" =>
        /\ manifest' = manifest
        /\ ret' = Returned(ExpectedWarnings(manifest))
        /\ ret'.value = <<>> <=> WellFormed(manifest)]_vars

\* C13 happens: a Manifest without a name, with two tools of one name, the
\* second without a description, and a tool without a name, params or sample
\* code has been validated.
C13_Witness ==
    /\ pc = "validated"
    /\ manifest.name = ""
    /\ Len(manifest.tools) = 3
    /\ manifest.tools[2].name = manifest.tools[1].name
    /\ manifest.tools[2].description = ""
    /\ manifest.tools[3].name = ""
    /\ Len(ret.value) = 5

\* The request got a response with a success status.
Succeeded(request) ==
    request.response.error = "" /\ request.response.status \in 200..299

\* The page the request got carries a webagents-md meta tag.
HasMetaTag(request) == MetaMatch(request.response.text).matched

\* The URL the meta tag of the page names, resolved against the page URL.
ResolvedUrl(request) ==
    urljoin(request.url, MetaMatch(request.response.text).g1)

\* What discover does with what parse did: it hands on the Manifest, or the
\* exception.
Handed(parsed) ==
    IF parsed.raised = "" THEN Returned(Some(parsed.value)) ELSE parsed

\* C14: in every execution of discover(page_url) the requests are a prefix of
\* <<GET page, GET manifest>>: the manifest is requested only after the page
\* fetch succeeded and a webagents-md meta tag was found, at the URL the tag
\* resolves to; without a meta tag discover returns None after one request,
\* and otherwise it returns what parse makes of the body fetched.
C14_RequestsArePageThenManifest ==
    call.op \in {"discover", "detect"} =>
        /\ Len(requests) <= 2
        /\ pc = "manifest" => Len(requests) = 1
        /\ Len(requests) >= 1 => requests[1].url = call.arg
        /\ (Len(requests) = 2 \/ pc = "manifest") =>
            /\ Succeeded(requests[1])
            /\ HasMetaTag(requests[1])
        /\ Len(requests) = 2 => requests[2].url = ResolvedUrl(requests[1])
        /\ pc = "ready" =>
            /\ Len(requests) >= 1
            /\ (Succeeded(requests[1]) /\ ~HasMetaTag(requests[1])) =>
                (ret = Returned(None) /\ Len(requests) = 1)
            /\ (Succeeded(requests[1]) /\ HasMetaTag(requests[1])) =>
                /\ Len(requests) = 2
                /\ Succeeded(requests[2]) =>
                    ret = Handed(parse(requests[2].response.text))

\* C14 happens: discover has read a page with a meta tag in a directory, has
\* fetched the manifest the tag names and has returned a Manifest with a tool.
C14_Witness ==
    /\ pc = "ready"
    /\ call.op = "discover"
    /\ Len(requests) = 2
    /\ requests[2].url = "https://shop.example.com/docs/agents.md"
    /\ ret.raised = ""
    /\ ret.value # None
    /\ Len(ret.value[1].tools) = 1

\* A fetch of the call failed: transport failure or non-success status.
Failed(request) == ~Succeeded(request)

\* The calls that fetch: the functions of discovery.py and the methods of
\* AgentClient that await them.
Fetching ==
    {"discover_manifest_url", "fetch_manifest", "discover",
     "detect_url", "load", "detect"}

\* C15: a non-success status or a transport failure of a fetch of
\* discover_manifest_url, fetch_manifest or discover is raised to the caller
\* (the call returns neither None nor a Manifest), the page and the manifest
\* are fetched at most once each (no fetch is tried again), and no fetch
\* follows a failed one: no manifest fetch after a failed page fetch.
C15_FetchFailuresPropagate ==
    call.op \in Fetching =>
        /\ Len(requests) <= IF call.op \in {"discover", "detect"} THEN 2 ELSE 1
        /\ \A i \in 1..Len(requests) :
            Failed(requests[i]) =>
                /\ i = Len(requests)
                /\ pc = "ready"
                /\ ret = Raised(IF requests[i].response.error # ""
                                THEN requests[i].response.error
                                ELSE "HTTPStatusError")

\* C15 happens: discover has fetched the page, and the manifest fetch got a
\* non-success status with a body that parses.
C15_Witness ==
    /\ pc = "ready"
    /\ call.op = "discover"
    /\ Len(requests) = 2
    /\ requests[2].response.status = 404
    /\ requests[2].response.text = "tool: get(id, n='5')\n"

\* The methods of AgentClient that need a loaded manifest.
Readers ==
    {"list_tools", "get_tool", "typescript", "context_for_llm", "system_prompt"}

\* The call raised a RuntimeError.
RaisedRuntimeError(r) == StartsWith(r.raised, "RuntimeError")

\* The call raised a KeyError.
RaisedKeyError(r) == StartsWith(r.raised, "KeyError")

\* r is what the reader c gives for the Manifest m: the tool names, a tool of
\* m of the name asked for or a KeyError, the declarations of m, and texts
\* that hold the declarations of m, the content of m and the task.
ComputedFrom(c, r, m) ==
    /\ c.op = "list_tools" =>
        r = Returned([i \in 1..Len(m.tools) |-> m.tools[i].name])
    /\ c.op = "get_tool" =>
        \/ RaisedKeyError(r)
        \/ /\ r.raised = ""
           /\ \E i \in 1..Len(m.tools) :
               m.tools[i] = r.value /\ m.tools[i].name = c.arg
    /\ c.op = "typescript" => r = Returned(generate_typescript(m))
    /\ c.op \in {"context_for_llm", "system_prompt"} =>
        /\ r.raised = ""
        /\ Contains(r.value, generate_typescript(m))
        /\ Contains(r.value, m.content)
    /\ c.op = "context_for_llm" =>
        /\ StartsWith(r.value, generate_typescript(m))
        /\ m.content = "" => r.value = generate_typescript(m)
    /\ c.op = "system_prompt" =>
        /\ Contains(r.value, IF m.name = "" THEN "'this website'"
                             ELSE "'" \o m.name \o "'")
        /\ Contains(r.value, c.arg)

\* C16: whatever the client did before, list_tools, get_tool, typescript,
\* context_for_llm and system_prompt raise RuntimeError exactly when no
\* manifest is loaded, return a result computed from the loaded manifest
\* otherwise, and leave the loaded manifest as it is.
C16_ReadersNeedManifest ==
    [][(pc = "ready" /\ call'.op \in Readers) =>
        /\ self_manifest' = self_manifest
        /\ RaisedRuntimeError(ret') <=> self_manifest = None
        /\ self_manifest # None => ComputedFrom(call', ret', self_manifest[1])
      ]_vars

\* C16 happens: system_prompt has returned the prompt of a task for a manifest
\* with tools that detect or load fetched and parsed.
C16_Witness ==
    /\ pc = "ready"
    /\ call.op = "system_prompt"
    /\ call.arg # ""
    /\ ret.raised = ""
    /\ self_manifest # None
    /\ self_manifest[1].content # ""
    /\ self_manifest[1].tools # <<>>

\* C17: with a manifest loaded, get_tool(name) returns the first tool of the
\* list whose name is the argument, also when several tools have that name,
\* and raises KeyError (not the RuntimeError of a missing manifest, not the
\* failure of a fetch) exactly when no tool has that name, which is when
\* Manifest.get_tool returns None.
C17_GetToolFirstMatch ==
    (pc = "ready" /\ call.op = "get_tool" /\ self_manifest # None) =>
        /\ RaisedKeyError(ret) <=>
            \A i \in 1..Len(self_manifest[1].tools) :
                self_manifest[1].tools[i].name # call.arg
        /\ RaisedKeyError(ret) <=>
            Manifest_get_tool(self_manifest[1], call.arg) = None
        /\ ~RaisedKeyError(ret) =>
            /\ ret.raised = ""
            /\ \E i \in 1..Len(self_manifest[1].tools) :
                /\ ret.value = self_manifest[1].tools[i]
                /\ self_manifest[1].tools[i].name = call.arg
                /\ \A j \in 1..(i - 1) :
                    self_manifest[1].tools[j].name # call.arg
        /\ RaisedKeyError(ret) =>
            /\ ~RaisedRuntimeError(ret)
            /\ ret.raised \notin {"ConnectError", "HTTPStatusError"}

\* C17 happens: get_tool has returned the first tool of a list whose third
\* tool has the same name and is another tool.
C17_Witness ==
    /\ pc = "ready"
    /\ call.op = "get_tool"
    /\ self_manifest # None
    /\ Len(self_manifest[1].tools) = 3
    /\ self_manifest[1].tools[1].name = self_manifest[1].tools[3].name
    /\ self_manifest[1].tools[1] # self_manifest[1].tools[3]
    /\ ret = Returned(self_manifest[1].tools[1])

\* C18: execute always returns a string: "undefined" for a null result, the
\* result itself for a string, the JSON rendering of any other result, and the
\* JSON object {"error": message} when the evaluation, or the rendering of
\* the result, raises; it does so with or without a loaded manifest and
\* leaves the loaded manifest as it is.
C18_ExecuteReturnsText ==
    [][(pc = "ready" /\ call'.op = "execute") =>
        /\ self_manifest' = self_manifest
        /\ ret'.raised = ""
        /\ ret'.value \in STRING
        /\ call'.evaluated.raised # "" =>
            ret'.value = "{\"error\": \""
                         \o JsonEscape(call'.evaluated.message) \o "\"}"
        /\ call'.evaluated.raised = "" =>
            /\ call'.evaluated.value.t = "null" => ret'.value = "undefined"
            /\ call'.evaluated.value.t = "str" =>
                ret'.value = call'.evaluated.value.v
            /\ (call'.evaluated.value.t \notin {"null", "str"}
                /\ Serializable(call'.evaluated.value)) =>
                ret'.value = JsonText(call'.evaluated.value)
            /\ (call'.evaluated.value.t = "int"
                /\ call'.evaluated.value.v = 3) => ret'.value = "3"
            /\ call'.evaluated.value.t = "bool" =>
                ret'.value \in {"true", "false"}
            /\ ~Serializable(call'.evaluated.value) =>
                StartsWith(ret'.value, "{\"error\": \"Object of type ")
      ]_vars

\* C18 happens: without a loaded manifest, execute has returned the error
\* object for a result json.dumps cannot render.
C18_Witness ==
    /\ pc = "ready"
    /\ call.op = "execute"
    /\ self_manifest = None
    /\ call.evaluated.raised = ""
    /\ call.evaluated.value.t = "list"
    /\ ~Serializable(call.evaluated.value)
    /\ StartsWith(ret.value, "{\"error\": ")

\* C19: every non-blank text without a line of the shape  tool: name(args)  is
\* parsed by the heading grammar, a text whose tool: lines lack the argument
\* list included: its tools are its "## " sections.
C19_HeadingWithoutToolLine ==
    (pc # "start" /\ ~AllWhitespace(markdown) /\ ~HasToolLine(markdown)) =>
        /\ dialect = "heading"
        /\ result.raised = "" =>
            /\ Len(result.value.tools) = Len(HeadingLines(LinesOf(markdown)))
            /\ \A n \in 1..Len(result.value.tools) :
                LinesOf(markdown)[HeadingLines(LinesOf(markdown))[n]]
                = "## " \o result.value.tools[n].name

\* The lines of the n-th tool: block after its header line.
BlockOf(lines, blocks, n) ==
    SubSeq(lines, blocks[n] + 1,
           IF n < Len(blocks) THEN blocks[n + 1] - 1 ELSE Len(lines))

\* The places of the  params:  section keys of a block.
ParamsKeys(block) ==
    {k \in 1..Len(block) : StartsWith(block[k], "  params:")}

\* The lines of the section opened at line k that declare a param: the lines
\* name: type  up to the next section key.
DeclaredBy(block, k) ==
    {j \in (k + 1)..Len(block) :
        /\ \A i \in (k + 1)..j : ~IsSectionKeyLine(block[i])
        /\ Contains(Strip(block[j]), ":")}

\* The entries of a header argument list that are not blank.
EntriesOf(args) ==
    LET NotBlank(entry) == entry # ""
    IN SelectSeq(StripEach(Split(args, ",")), NotBlank)

\* The params are the entries of the header in order: name is a required
\* string param without default, name=literal an optional one whose default
\* is the literal without its quote characters.
SynthesizedFrom(params, entries) ==
    /\ Len(params) = Len(entries)
    /\ \A j \in 1..Len(entries) :
        /\ params[j].type = "string"
        /\ StartsWith(entries[j], params[j].name)
        /\ IF Contains(entries[j], "=")
           THEN /\ ~params[j].required
                /\ params[j].default
                   = Some(StripChars(Strip(Split1(entries[j], "=")[2]),
                                     {"'", "\""}))
           ELSE /\ params[j].required
                /\ params[j].default = None
                /\ params[j].name = entries[j]

\* The params of the tool of one block are the entries of its header when the
\* block has no params section, and what its params section declares when it
\* has one.
ParamsOfBlock(tool, args, block) ==
    /\ (ParamsKeys(block) = {} /\ EntriesOf(args) # <<>>) =>
        SynthesizedFrom(tool.params, EntriesOf(args))
    /\ \A k \in ParamsKeys(block) :
        Len(tool.params) = Cardinality(DeclaredBy(block, k))

\* C20: in a compact tool block, params are synthesized from the header
\* argument list exactly when the block has no params section at all and the
\* argument list is not empty; when a params section is present, even one
\* that declares no param, the params are the ones the section declares and
\* nothing is synthesized from the header.
C20_HeaderParamsOnlyWithoutSection ==
    (/\ pc # "start"
     /\ dialect = "compact"
     /\ result.raised = ""
     /\ Len(result.value.tools) = Len(ToolBlockLines(LinesOf(markdown)))) =>
        \A n \in 1..Len(result.value.tools) :
            TOOL_HEADER_RE(LinesOf(markdown)[ToolBlockLines(LinesOf(markdown))[n]]).matched =>
                ParamsOfBlock(result.value.tools[n],
                              TOOL_HEADER_RE(LinesOf(markdown)[ToolBlockLines(LinesOf(markdown))[n]]).g2,
                              BlockOf(LinesOf(markdown),
                                      ToolBlockLines(LinesOf(markdown)), n))

\* The lines of the Params sub-section of the block of one "## " section: the
\* lines after its last "### Params" line up to the next "### " line.
ParamsLinesOf(block) ==
    LET IsSub(k) == StartsWith(block[k], "### ")
        k == Last(1, Len(block),
                  {j \in 1..Len(block) :
                      /\ IsSub(j)
                      /\ Lower(Strip(RemovePrefix(block[j], "### "))) = "params"})
        end == First(k + 1, Len(block), {j \in 1..Len(block) : IsSub(j)})
    IN IF k = 0 THEN <<>> ELSE SubSeq(block, k + 1, end - 1)

\* The modifier is one of the words optional, required or default=<value>.
IsKeyword(mod) ==
    mod \in {"optional", "required"} \/ StartsWith(mod, "default=")

\* The param is what the line  - `name` (modifiers): description  declares
\* when its modifiers are applied from left to right: the type is the last
\* modifier that is no keyword ("string" without one), the default is the
\* value text of the last default=<value> (none without one), and required is
\* what the last keyword says: true for required, false for optional and for
\* default=<value>, true without any keyword.
DeclaredByLine(param, m) ==
    LET mods == StripEach(Split(m.g2, ","))
        t == Last(1, Len(mods), {k \in 1..Len(mods) : ~IsKeyword(mods[k])})
        d == Last(1, Len(mods),
                  {k \in 1..Len(mods) : StartsWith(mods[k], "default=")})
        r == Last(1, Len(mods), {k \in 1..Len(mods) : IsKeyword(mods[k])})
    IN  /\ param.name = m.g1
        /\ param.description = Strip(m.g3)
        /\ param.type = IF t = 0 THEN "string" ELSE mods[t]
        /\ param.default = IF d = 0 THEN None
                           ELSE Some(Strip(RemovePrefix(mods[d], "default=")))
        /\ param.required = (r = 0 \/ mods[r] = "required")

\* The params are one per line of the section that has the shape of a param
\* line, in the order of the lines.
OneParamPerLine(params, lines) ==
    LET Matches(line) == PARAM_RE(line).matched
        matching == SelectSeq(StripEach(lines), Matches)
    IN  /\ Len(params) = Len(matching)
        /\ \A j \in 1..Len(matching) :
            DeclaredByLine(params[j], PARAM_RE(matching[j]))

\* C21: in the heading dialect the params of a tool with a Params sub-section
\* are one Param per line of the shape  - `name` (modifiers): description,  in
\* the order of the lines; a line of another shape adds nothing and raises
\* nothing; the modifiers are applied from left to right: the type is the
\* last modifier that is neither optional, required nor default=<value>, and
\* a default=<value> modifier sets the default to the value text and required
\* to false.
C21_ParamsFromParamLines ==
    (/\ pc # "start"
     /\ dialect = "heading"
     /\ \E n \in 1..Len(LinesOf(markdown)) :
            StartsWith(LinesOf(markdown)[n], "### Params")) =>
        /\ result.raised = ""
        /\ Len(result.value.tools) = Len(HeadingLines(LinesOf(markdown)))
        /\ \A n \in 1..Len(result.value.tools) :
            OneParamPerLine(result.value.tools[n].params,
                            ParamsLinesOf(BlockOf(LinesOf(markdown),
                                                  HeadingLines(LinesOf(markdown)),
                                                  n)))

\* C21 happens: a Params sub-section with a line of another shape between two
\* param lines has been parsed, the first line with default=5 before
\* required, the second with two candidate types.
C21_Witness ==
    /\ pc # "start"
    /\ dialect = "heading"
    /\ Contains(markdown, "- note\n")
    /\ \E n \in 1..Len(result.value.tools) :
        /\ Len(result.value.tools[n].params) = 2
        /\ result.value.tools[n].params[1].default = Some("5")
        /\ result.value.tools[n].params[1].required
        /\ result.value.tools[n].params[2].type = "Mode"
        /\ ~result.value.tools[n].params[2].required

\* The lines of the segment before the first "## " line.
HeaderSegment(lines) ==
    SubSeq(lines, 1,
           First(1, Len(lines),
                 {k \in 1..Len(lines) : StartsWith(lines[k], "## ")}) - 1)

\* The name is the text of the first "# " line of the segment and the
\* description is every later line joined with newlines and trimmed; both are
\* empty without a "# " line.
NamedByFirstTitle(m, segment) ==
    LET f == First(1, Len(segment),
                   {k \in 1..Len(segment) : StartsWith(segment[k], "# ")})
    IN IF f > Len(segment)
       THEN m.name = "" /\ m.description = ""
       ELSE /\ m.name = Strip(RemovePrefix(segment[f], "# "))
            /\ m.description
               = Strip(Join(SubSeq(segment, f + 1, Len(segment)), "\n"))

\* C22: in the heading dialect the manifest name is the text of the first
\* "# " line of the segment before the first "## " line, and the description
\* is every later line of that segment joined with newlines and trimmed; a
\* second "# " line in that segment does not change the name.
C22_NameIsFirstTitle ==
    (pc # "start" /\ dialect = "heading" /\ result.raised = "") =>
        NamedByFirstTitle(result.value, HeaderSegment(LinesOf(markdown)))

\* The name and the description come from the preamble alone: the name is
\* the text of a "# " line of it (empty without one) and the description is
\* its other lines joined with newlines and trimmed.
FromPreamble(m, preamble) ==
    LET IsTitle(line) == StartsWith(line, "# ")
        IsOther(line) == ~IsTitle(line)
        titles == SelectSeq(preamble, IsTitle)
    IN  /\ IF titles = <<>> THEN m.name = ""
           ELSE \E k \in 1..Len(titles) :
                    m.name = Strip(RemovePrefix(titles[k], "# "))
        /\ m.description = Strip(Join(SelectSeq(preamble, IsOther), "\n"))

\* C23: in the compact dialect the manifest name and description are taken
\* only from the lines before the first tool: line: no line at or after the
\* start of the first tool block adds to the name or the description, and
\* every tool: line starts exactly one tool block.
C23_PreambleEndsAtFirstToolLine ==
    (pc # "start" /\ dialect = "compact" /\ result.raised = "") =>
        /\ FromPreamble(result.value,
                        SubSeq(LinesOf(markdown), 1,
                               ToolBlockLines(LinesOf(markdown))[1] - 1))
        /\ Len(result.value.tools) = Len(ToolBlockLines(LinesOf(markdown)))

\* C24: the manifest an AgentClient has loaded is None after construction and
\* changes only when detect, load or load_manifest ends; when detect or load
\* returns, it is exactly the value returned (None when detect found no tag,
\* a manifest loaded before or not); when detect or load raises, it is the
\* manifest loaded before the call.
C24_LoadedManifestFrame ==
    [][/\ call.op = "none" => self_manifest = None
       /\ self_manifest' # self_manifest =>
            /\ pc' = "ready"
            /\ call'.op \in {"detect", "load", "load_manifest"}
       /\ (pc # "ready" /\ pc' = "ready" /\ call.op \in {"detect", "load"}) =>
            IF ret'.raised # "" THEN self_manifest' = self_manifest
            ELSE IF call.op = "detect" THEN self_manifest' = ret'.value
            ELSE self_manifest' = Some(ret'.value)
       /\ (pc' = "ready" /\ call'.op = "load_manifest") =>
            self_manifest' = Some(call'.arg)]_vars

\* C24 happens: detect has raised at the manifest request, and the manifest
\* loaded before the call is still loaded.
C24_Witness ==
    /\ pc = "ready"
    /\ call.op = "detect"
    /\ ret.raised # ""
    /\ Len(requests) = 2
    /\ self_manifest # None

\* C25: when the caller of discover_manifest_url, fetch_manifest or discover
\* supplies no HTTP client, the client created inside the call is closed
\* exactly once, after the last request, when the call returns or raises, and
\* discover does not close it between the page request and the manifest
\* request; when the caller supplies a client, the agent's own included, no
\* function closes it.
C25_CreatedClientClosedOnce ==
    call.op \in {"discover_manifest_url", "fetch_manifest", "discover",
                 "detect", "detect_url", "load"} =>
        /\ pc # "ready" => closed = <<>>
        /\ (pc = "ready" /\ call.client = None) =>
            closed = <<[client |-> "created", after |-> Len(requests)]>>
        /\ (pc = "ready" /\ call.client # None) => closed = <<>>

\* C25 happens: discover, called without a client, has raised at the manifest
\* request, its second, and has closed the client it created.
C25_Witness ==
    /\ pc = "ready"
    /\ call.op = "discover"
    /\ call.client = None
    /\ ret.raised # ""
    /\ Len(requests) = 2
    /\ Len(closed) = 1

====
